---- MODULE Spec2Model ----
(***************************************************************************)
(* deepseek_proxy: admission pipeline of a chat request (global token      *)
(* bucket, quota check, per-user permit, upstream call, quota increment,   *)
(* permit-guarded stream), the login path that issues token entries, the   *)
(* quota engine with its coalesced atomic-rename persistence, and the      *)
(* shutdown flush.                                                         *)
(*                                                                         *)
(* Time is a discrete clock `now`; every duration of the program (token    *)
(* ttl, month length, UTC+8 offset) is counted in ticks of that clock.     *)
(* Every action is one critical section of the code (one lock scope) or    *)
(* one file-system call, so that the interleavings of concurrent tasks     *)
(* are those the code allows.                                              *)
(***************************************************************************)
EXTENDS Integers, FiniteSets, Sequences, TLC

\* ---------------------------------------------------------------------------
\* Bounds of the model
\* ---------------------------------------------------------------------------
MaxTime == 2
\* number of chat requests of a run
MaxReq == 2
\* the same, in the specification that has the shutdown task
MaxReqSd == 1
\* number of token entries (token + semaphore) minted over a run
MaxSem == 3
\* number of admin requests of a run
MaxAdm == 2

\* ---------------------------------------------------------------------------
\* Configuration (config.rs), in ticks / small numbers
\* ---------------------------------------------------------------------------
\* auth.token_ttl_seconds
Ttl == 2
\* rate_limit.requests_per_second
Rps == 1
\* quota.save_interval
SaveInterval == 2
\* quota.tiers.basic : every user of the model is on the basic tier
MonthlyLimit == 2
\* length of a calendar month
MonthLen == 2
\* the +08:00 offset of now_beijing
TzOffset == 1
\* leeway jsonwebtoken's default Validation grants on `exp`
JwtLeeway == 1
\* security.login_fail_threshold
login_fail_threshold == 2
\* security.login_fail_window_seconds
login_fail_window_seconds == 1

Users == {"alice", "bob"}
\* the peer addresses logins come from
Ips == {"10.0.0.1"}
Reqs == 1..MaxReq
ReqsSd == 1..MaxReqSd
Adms == 1..MaxAdm
NoUser == "none"
\* a username that is not in the store at the start
NewUser == "carol"
\* the usernames of the admin requests: one that exists at the start, one that
\* does not
AdminNames == {"alice", NewUser}
\* the (password, quota_tier) pairs of the create requests
Credentials == {<<"pw1", "basic">>, <<"pw2", "pro">>}
\* the peer addresses of the admin requests: the loopback address and another
Loopback == "127.0.0.1"
Peers == {Loopback, "10.0.0.1"}
\* Option::None of created_at / updated_at
NoTime == -1

\* ---------------------------------------------------------------------------
\* State
\* ---------------------------------------------------------------------------
VARIABLES
    now,      \* the clock (Instant::now / Utc::now)
    bucket,   \* GlobalRateLimiter.state : [tokens, last_refill]
    cache,    \* LoginLimiter.cache : username -> (token, semaphore, expires_at)
    semCtr,   \* number of semaphores (and tokens) created so far
    jwt,      \* username -> exp claim of the newest bearer token the user holds
    quota,    \* QuotaManager.cache : username -> QuotaState
    files,    \* <data_dir>/<user>.json : username -> serialized QuotaState
    tmp,      \* <data_dir>/<user>.tmp  : username -> serialized QuotaState
    req,      \* the chat requests of the run (one proxy_chat task each)
    snap,     \* save_one's local `state` clone, per running task
    sd,       \* the shutdown_signal task
    attempts, \* BruteForceGuard.attempts : (username, ip) -> failure instants
    users,    \* UserManager.users : username -> User
    ufiles,   \* <users_dir>/<username>.toml : username -> content of the file
    adm,      \* the admin requests of the run (one handler task each)
    cstream,  \* one response body: upstream -> PermitGuardedStream -> CountingStream
    waiting_count, \* glm_proxy RateLimiter.waiting_count
    permits,  \* glm_proxy RateLimiter.semaphore : the permits it has available
    acq       \* glm_proxy: the proxy_chat tasks and their calls of acquire()

\* the state of the glm_proxy process
glm_proxy == <<waiting_count, permits, acq>>

vars ==
    <<now, bucket, cache, semCtr, jwt, quota, files, tmp, req, snap, sd,
      attempts, users, ufiles, adm, cstream, glm_proxy>>

\* the task id of shutdown_signal in `snap`
SdTask == 0

\* ---------------------------------------------------------------------------
\* HashMap helpers
\* ---------------------------------------------------------------------------
EmptyMap == [k \in {} |-> 0]

Insert(m, k, v) == [x \in (DOMAIN m) \cup {k} |-> IF x = k THEN v ELSE m[x]]

Remove(m, k) == [x \in (DOMAIN m) \ {k} |-> m[x]]

Min(a, b) == IF a < b THEN a ELSE b

\* ---------------------------------------------------------------------------
\* Global token bucket (proxy/rate_limiter.rs)
\* ---------------------------------------------------------------------------
burst_capacity == Rps * 2

\* a refill without the cap
Refill_uncapped(b, t) ==
    [tokens |-> b.tokens + (t - b.last_refill) * Rps, last_refill |-> t]

\* the bucket after the refill of acquire() at time t
Refill(b, t) ==
    [tokens |-> Min(b.tokens + (t - b.last_refill) * Rps, burst_capacity),
     last_refill |-> t]

\* acquire() admits iff the refilled bucket holds a whole token
Admits(b, t) == Refill(b, t).tokens >= 1

\* an acquire that takes a token also when it rejects
AfterAcquire_charged(b, t) == [Refill(b, t) EXCEPT !.tokens = @ - 1]

\* the bucket after acquire() at time t
AfterAcquire(b, t) ==
    IF Admits(b, t)
    THEN [Refill(b, t) EXCEPT !.tokens = @ - 1]
    ELSE Refill(b, t)

\* ---------------------------------------------------------------------------
\* Token / permit manager (proxy/limiter.rs)
\* ---------------------------------------------------------------------------
\* a retain that evicts nothing
Retain_all(c, t) == c

\* cache.retain(|_, (_, _, expires_at)| now < *expires_at)
Retain(c, t) == [u \in {k \in DOMAIN c : t < c[k].expires_at} |-> c[u]]

\* the requests that own a permit of semaphore s
Holders(s) == {r \in Reqs : req[r].permit = s}

\* a try_acquire_owned that never finds the semaphore busy
try_acquire_owned_unchecked(s) == TRUE

\* semaphore.try_acquire_owned() on a Semaphore::new(1)
try_acquire_owned(s) == Holders(s) = {}

\* ---------------------------------------------------------------------------
\* Brute-force guard (auth/bruteforce.rs)
\* ---------------------------------------------------------------------------
\* BruteForceGuard::key
key(u, ip) == <<u, ip>>

\* the failure instants recorded under key k
Failures(a, k) == IF k \in DOMAIN a THEN a[k] ELSE <<>>

\* vec.retain(|t| now.duration_since(*t) <= window)
Prune(vec, t) ==
    LET InWindow(x) == t - x <= login_fail_window_seconds
    IN  SelectSeq(vec, InWindow)

\* record_failure: prune the entry, push now
record_failure(a, k, t) == Insert(a, k, Append(Prune(Failures(a, k), t), t))

\* should_block: vec.len() >= threshold, on the entry as it is stored
should_block(a, k) == Len(Failures(a, k)) >= login_fail_threshold

\* a reset_on_success that keeps the entry
reset_on_success_noop(a, k) == a

\* reset_on_success: attempts.remove(&key)
reset_on_success(a, k) == Remove(a, k)

\* ---------------------------------------------------------------------------
\* Wall clock (utils.rs)
\* ---------------------------------------------------------------------------
\* now_beijing(): the wall clock read in UTC+8
now_beijing(t) == t + TzOffset

\* now_beijing_rfc3339(): that reading as a timestamp string
now_beijing_rfc3339(t) == now_beijing(t)

\* ---------------------------------------------------------------------------
\* User store (auth/user_manager.rs, config.rs)
\* ---------------------------------------------------------------------------
\* a User of auth.users in the configuration file: no timestamps
ConfigUser(u) ==
    [username |-> u, password |-> "pw1", quota_tier |-> "basic",
     is_active |-> TRUE, created_at |-> NoTime, updated_at |-> NoTime]

\* the value of an admin task's local `user` before it is bound
NoRecord == [ConfigUser(NoUser) EXCEPT !.password = "", !.quota_tier = "",
                                       !.is_active = FALSE]

\* the content of a .toml file: empty after File::create truncated it, the
\* document of one User after write_all
EmptyFile == <<>>

\* toml::to_string_pretty(user)
to_string_pretty(user) == <<user>>

\* load_all_users: the users the next start of the process loads from the
\* directory; a file toml::from_str cannot parse is skipped with a warning
load_all_users(uf) ==
    [u \in {f \in DOMAIN uf : uf[f] # EmptyFile} |-> uf[u][1]]

\* a save that takes a deactivated user out of the map
insert_user_evicting(us, user) ==
    IF user.is_active THEN Insert(us, user.username, user)
    ELSE Remove(us, user.username)

\* users.insert(user.username.clone(), user.clone())
insert_user(us, user) == Insert(us, user.username, user)

\* find_user: users.get(username).filter(|u| u.password == password) is Some,
\* pw_ok telling whether the password presented is the one stored
find_user(us, u, pw_ok) == u \in DOMAIN us /\ pw_ok

\* the user create_user builds at time t
CreatedUser(u, pw, tier, t) ==
    [username |-> u, password |-> pw, quota_tier |-> tier, is_active |-> TRUE,
     created_at |-> now_beijing_rfc3339(t), updated_at |-> now_beijing_rfc3339(t)]

\* a set_user_active that also resets the creation stamp
Activated_restamped(user, x, t) ==
    [user EXCEPT !.is_active = x, !.created_at = now_beijing_rfc3339(t),
                 !.updated_at = now_beijing_rfc3339(t)]

\* the clone set_user_active saves: is_active and updated_at are set
Activated(user, x, t) ==
    [user EXCEPT !.is_active = x, !.updated_at = now_beijing_rfc3339(t)]

\* UserInfo: a user without its password
UserInfo(user) ==
    [username |-> user.username, quota_tier |-> user.quota_tier,
     is_active |-> user.is_active]

\* a loopback test that lets every peer in
is_loopback_any(peer) == TRUE

\* addr.ip().is_loopback()
is_loopback(peer) == peer = Loopback

\* ---------------------------------------------------------------------------
\* Quota engine (quota/manager.rs, quota/types.rs)
\* ---------------------------------------------------------------------------

\* months of a calendar year
MonthsPerYear == 12

\* Datelike::year and Datelike::month (1..12) of a date-time, given as the time
\* its own clock shows since the start of year 0
year(local) == local \div (MonthLen * MonthsPerYear)
month(local) == ((local \div MonthLen) % MonthsPerYear) + 1

\* NaiveDate::from_ymd_opt(y, m, 1).and_hms_opt(0, 0, 0): the naive date-time
\* "day 1 of month m of year y, 00:00:00"
first_of_month(y, m) == ((y * MonthsPerYear) + (m - 1)) * MonthLen

\* DateTime::from_naive_utc_and_offset(naive, offset): the instant whose UTC
\* clock shows `naive`; the offset only sets how the instant is printed
from_naive_utc_and_offset(naive, offset) == naive

\* next_month_reset(): day 1, 00:00:00 of the month after now_beijing's month,
\* December wrapping to January of the next year; from_naive_utc_and_offset
\* takes that naive date-time as a UTC instant
next_month_reset(t) ==
    LET n == now_beijing(t)
        next_month == IF month(n) = 12
                      THEN first_of_month(year(n) + 1, 1)
                      ELSE first_of_month(year(n), month(n) + 1)
    IN  from_naive_utc_and_offset(next_month, TzOffset)

\* the content of a file File::create has just made or truncated: no json yet
TruncatedJson == [truncated |-> TRUE]

\* serde: `dirty` is #[serde(skip)]
Serialize(st) ==
    [monthly_limit |-> st.monthly_limit, used_count |-> st.used_count,
     last_saved_count |-> st.last_saved_count, reset_at |-> st.reset_at]

Deserialize(f) ==
    [monthly_limit |-> f.monthly_limit, used_count |-> f.used_count,
     last_saved_count |-> f.last_saved_count, reset_at |-> f.reset_at,
     dirty |-> FALSE]

\* the QuotaState of a first access
FreshState(t) ==
    [monthly_limit |-> MonthlyLimit, used_count |-> 0, last_saved_count |-> 0,
     reset_at |-> next_month_reset(t), dirty |-> TRUE]

\* config.auth.users.iter().find(|u| u.username == username): the users of the
\* configuration file, not the user store
InConfig(u) == u \in Users

\* load_or_init returns Ok: the user is cached, or has a quota file, or is
\* found by the lookup of a first access
Loadable(q, u) == u \in DOMAIN q \/ u \in DOMAIN files \/ InConfig(u)

\* a load_or_init without the contains_key early return: it loads again
load_or_init_reload(q, u, t) ==
    IF u \in DOMAIN files THEN Insert(q, u, Deserialize(files[u]))
    ELSE Insert(q, u, FreshState(t))

\* load_or_init: the cache after a successful lazy load of u at time t
load_or_init(q, u, t) ==
    IF u \in DOMAIN q THEN q
    ELSE IF u \in DOMAIN files THEN Insert(q, u, Deserialize(files[u]))
    ELSE Insert(q, u, FreshState(t))

\* the limit test with > for >=
Exceeded_strict(st) == st.used_count > st.monthly_limit

\* used_count >= monthly_limit
Exceeded(st) == st.used_count >= st.monthly_limit

\* now > reset_at
NeedReset(st, t) == t > st.reset_at

\* the month reset of check_and_increment / QuotaStateAtomic::reset
ResetState(st, t) ==
    [st EXCEPT !.used_count = 0, !.last_saved_count = 0,
               !.reset_at = next_month_reset(t), !.dirty = TRUE]

\* an increment that counts a request twice
increment_twice(st) == [st EXCEPT !.used_count = @ + 2, !.dirty = TRUE]

\* QuotaStateAtomic::increment / state.used_count += 1
increment(st) == [st EXCEPT !.used_count = @ + 1, !.dirty = TRUE]

\* an interval test that flushes one increment late
IntervalReached_late(st) == st.used_count - st.last_saved_count > SaveInterval

\* current_used - last_saved >= save_interval
IntervalReached(st) == st.used_count - st.last_saved_count >= SaveInterval

\* the flush bookkeeping with its assignment the wrong way round
MarkSaved_swapped(st) ==
    [st EXCEPT !.used_count = st.last_saved_count, !.dirty = FALSE]

\* state.last_saved_count = current_used; state.dirty = false
MarkSaved(st) == [st EXCEPT !.last_saved_count = st.used_count, !.dirty = FALSE]

\* ---------------------------------------------------------------------------
\* Requests
\* ---------------------------------------------------------------------------
IdleReq ==
    [pc |-> "idle", user |-> NoUser, permit |-> 0, code |-> 0, why |-> "",
     steps |-> {}, body |-> <<>>]

\* the response of a request that ends with an error; its locals, the permit
\* among them, are dropped
Fail(r, code, why, body) ==
    [req[r] EXCEPT !.pc = "done", !.permit = 0, !.code = code, !.why = why,
                   !.body = body]

\* an admin request that has not arrived
IdleAdm ==
    [pc |-> "idle", peer |-> "", op |-> "", name |-> NoUser, user |-> NoRecord,
     code |-> 0, body |-> {}]

Accepting ==
    sd.pc \in {"run", "sa_loop", "sa_snap", "sa_write", "sa_fill", "sa_rename"}

\* ---------------------------------------------------------------------------
\* The response body (proxy/handler.rs, proxy/limiter.rs)
\* ---------------------------------------------------------------------------
\* the number of items (chunks and the terminator) one upstream stream yields
MaxChunks == 3

\* a line of a chunk, by what the parser of poll_next finds in it:
\*   "text"  does not start with "data:"     "done"  data: [DONE]
\*   "bad"   data: followed by no JSON       "json"  data: JSON without usage
\*   "usage" data: JSON with a usage object
starts_with_data(line) == line # "text"
is_done(line) == line = "done"
from_str_ok(line) == line \in {"json", "usage"}
has_usage(line) == line = "usage"

\* usage.completion_tokens of a usage frame
UsageCompletion == 2

ChunkLines ==
    {<<"text", "json">>, <<"usage", "done">>, <<"bad", "usage", "usage">>}

\* chunk.len()
ChunkLens == {3, 5}

\* Bytes: whether it is UTF-8, its lines, its length
Chunks == [utf8 : BOOLEAN, lines : ChunkLines, len : ChunkLens]

NoChunk == [utf8 |-> FALSE, lines |-> <<>>, len |-> 0]

\* Poll<Option<Result<Bytes, reqwest::Error>>>
Pending == [kind |-> "pending", chunk |-> NoChunk]
ReadyNone == [kind |-> "none", chunk |-> NoChunk]
ReadyErr == [kind |-> "err", chunk |-> NoChunk]
ReadyChunk(chunk) == [kind |-> "chunk", chunk |-> chunk]

\* what the upstream byte stream can answer to one poll
Polls == {Pending, ReadyNone, ReadyErr} \cup {ReadyChunk(c) : c \in Chunks}

\* PermitGuardedStream::poll_next: the poll of the wrapped stream
PermitGuardedStream_poll_next(polled) == polled

\* the usage frames the loop over text.lines() records in one chunk
usage_frames(chunk) ==
    IF chunk.utf8
    THEN Cardinality({i \in 1..Len(chunk.lines) :
                         /\ starts_with_data(chunk.lines[i])
                         /\ ~is_done(chunk.lines[i])
                         /\ from_str_ok(chunk.lines[i])
                         /\ has_usage(chunk.lines[i])})
    ELSE 0

\* a body that forwards only the lines it did not parse as usage frames
Forwarded_stripped(chunk) ==
    [chunk EXCEPT !.lines = IF chunk.utf8
                            THEN SelectSeq(chunk.lines, LAMBDA l : ~has_usage(l))
                            ELSE @]

\* Poll::Ready(Some(Ok(chunk))): the chunk that was polled, moved out
Forwarded(chunk) == chunk

\* CountingStream::new
CountingStream_new ==
    [pc |-> "open", sent |-> <<>>, out |-> <<>>, pending |-> FALSE,
     bytes_acc |-> 0, recorded |-> FALSE, real_output_recorded |-> FALSE,
     output_tokens |-> 0]

\* CountingStream::poll_next on what the inner stream answered: the item it
\* returns and the stream afterwards
CountingStream_poll_next(cs, polled) ==
    IF polled.kind = "chunk"
    THEN LET chunk == polled.chunk
             n == IF cs.real_output_recorded THEN 0 ELSE usage_frames(chunk)
         IN  [item |-> ReadyChunk(Forwarded(chunk)),
              cs |-> [cs EXCEPT !.bytes_acc = @ + chunk.len,
                                !.output_tokens = @ + n * UsageCompletion,
                                !.real_output_recorded = @ \/ n > 0]]
    ELSE [item |-> polled, cs |-> cs]

\* the body polls CountingStream, which polls PermitGuardedStream, which
\* polls the upstream stream; the item goes to the client
PollNext(polled) ==
    /\ cstream.pc = "open"
    /\ Len(cstream.sent) < MaxChunks
    /\ LET r == CountingStream_poll_next(cstream,
                                         PermitGuardedStream_poll_next(polled))
       IN  cstream' =
             [r.cs EXCEPT
                !.pc = IF r.item.kind \in {"none", "err"} THEN "ended" ELSE "open",
                !.sent = IF polled.kind = "pending" THEN @ ELSE Append(@, polled),
                !.out = IF r.item.kind = "pending" THEN @ ELSE Append(@, r.item),
                !.pending = r.item.kind = "pending"]
    /\ UNCHANGED <<now, bucket, cache, semCtr, jwt, quota, files, tmp, req, snap,
                   sd, attempts, users, ufiles, adm, glm_proxy>>

\* Drop for CountingStream (the stream ended or the client went away): the
\* output tokens are estimated from the bytes unless a usage frame gave them
DropStream ==
    /\ cstream.pc \in {"open", "ended"}
    /\ cstream' =
         IF ~cstream.recorded /\ ~cstream.real_output_recorded
         THEN [cstream EXCEPT !.pc = "dropped", !.pending = FALSE,
                              !.output_tokens = @ + (cstream.bytes_acc \div 4),
                              !.recorded = TRUE]
         ELSE [cstream EXCEPT !.pc = "dropped", !.pending = FALSE]
    /\ UNCHANGED <<now, bucket, cache, semCtr, jwt, quota, files, tmp, req, snap,
                   sd, attempts, users, ufiles, adm, glm_proxy>>

\* ---------------------------------------------------------------------------
\* glm_proxy: the queueing RateLimiter (glm_proxy/src/proxy/limiter.rs)
\* ---------------------------------------------------------------------------
\* number of chat requests glm_proxy receives
MaxCallers == 3
Callers == 1..MaxCallers
\* rate_limit.requests_per_second: the permits of the semaphore
requests_per_second == 1
\* rate_limit.queue_capacity
queue_capacity == 2

\* a proxy_chat task that has not started
IdleCall == [pc |-> "idle", waiting |-> 0, result |-> "none"]

\* 1. let waiting = self.waiting_count.fetch_add(1)
FetchAdd(c) ==
    /\ acq[c].pc = "idle"
    /\ waiting_count' = waiting_count + 1
    /\ acq' = [acq EXCEPT ![c] = [@ EXCEPT !.pc = "check", !.waiting = waiting_count]]
    /\ UNCHANGED <<now, bucket, cache, semCtr, jwt, quota, files, tmp, req, snap, sd,
                   attempts, users, ufiles, adm, cstream, permits>>

\* 2. if waiting >= queue_capacity: fetch_sub(1), return TooManyRequests;
\* else the task goes on to timeout(queue_timeout, acquire_owned())
QueueCheck(c) ==
    /\ acq[c].pc = "check"
    /\ IF acq[c].waiting >= queue_capacity
       THEN /\ waiting_count' = waiting_count - 1
            /\ acq' = [acq EXCEPT ![c] = [@ EXCEPT !.pc = "done",
                                                    !.result = "TooManyRequests"]]
       ELSE /\ waiting_count' = waiting_count
            /\ acq' = [acq EXCEPT ![c].pc = "poll"]
    /\ UNCHANGED <<now, bucket, cache, semCtr, jwt, quota, files, tmp, req, snap, sd,
                   attempts, users, ufiles, adm, cstream, permits>>

\* 3. the first poll of acquire_owned(): it takes a permit that is available,
\* else the task is suspended at the await
FirstPoll(c) ==
    /\ acq[c].pc = "poll"
    /\ IF permits > 0
       THEN /\ permits' = permits - 1
            /\ acq' = [acq EXCEPT ![c] = [@ EXCEPT !.pc = "woken", !.result = "permit"]]
       ELSE /\ permits' = permits
            /\ acq' = [acq EXCEPT ![c].pc = "wait"]
    /\ UNCHANGED <<now, bucket, cache, semCtr, jwt, quota, files, tmp, req, snap, sd,
                   attempts, users, ufiles, adm, cstream, waiting_count>>

\* 3. a permit comes back while the task is suspended: the await ends with it
Granted(c) ==
    /\ acq[c].pc = "wait"
    /\ permits > 0
    /\ permits' = permits - 1
    /\ acq' = [acq EXCEPT ![c] = [@ EXCEPT !.pc = "woken", !.result = "permit"]]
    /\ UNCHANGED <<now, bucket, cache, semCtr, jwt, quota, files, tmp, req, snap, sd,
                   attempts, users, ufiles, adm, cstream, waiting_count>>

\* 3. the await ends because queue_timeout has elapsed
Elapsed(c) ==
    /\ acq[c].pc = "wait"
    /\ acq' = [acq EXCEPT ![c] = [@ EXCEPT !.pc = "woken", !.result = "QueueTimeout"]]
    /\ UNCHANGED <<now, bucket, cache, semCtr, jwt, quota, files, tmp, req, snap, sd,
                   attempts, users, ufiles, adm, cstream, waiting_count, permits>>

\* 3. the client goes away while the task waits: the future of proxy_chat, and
\* with it the future of acquire, is dropped at its await and runs no further
Cancelled(c) ==
    /\ acq[c].pc = "wait"
    /\ acq' = [acq EXCEPT ![c] = [@ EXCEPT !.pc = "done", !.result = "cancelled"]]
    /\ UNCHANGED <<now, bucket, cache, semCtr, jwt, quota, files, tmp, req, snap, sd,
                   attempts, users, ufiles, adm, cstream, waiting_count, permits>>

\* 4. and 5. fetch_sub(1), then Ok(RateLimitPermit) or Err(QueueTimeout)
FetchSub(c) ==
    /\ acq[c].pc = "woken"
    /\ waiting_count' = waiting_count - 1
    /\ acq' = [acq EXCEPT ![c].pc = IF acq[c].result = "permit" THEN "holding"
                                    ELSE "done"]
    /\ UNCHANGED <<now, bucket, cache, semCtr, jwt, quota, files, tmp, req, snap, sd,
                   attempts, users, ufiles, adm, cstream, permits>>

\* proxy_chat returns and its _permit is dropped: the semaphore gets the permit
\* back
PermitDropped(c) ==
    /\ acq[c].pc = "holding"
    /\ permits' = permits + 1
    /\ acq' = [acq EXCEPT ![c].pc = "done"]
    /\ UNCHANGED <<now, bucket, cache, semCtr, jwt, quota, files, tmp, req, snap, sd,
                   attempts, users, ufiles, adm, cstream, waiting_count>>

\* ---------------------------------------------------------------------------
\* Init
\* ---------------------------------------------------------------------------
\* the quota file an earlier run of the process left for bob: written by the
\* save_all of its shutdown, earlier in the current month, after one increment;
\* alice is new
OldFile ==
    [monthly_limit |-> MonthlyLimit, used_count |-> 1, last_saved_count |-> 0,
     reset_at |-> next_month_reset(0)]

\* the same file written in the month before: its reset_at is the start of the
\* current month, the instant at which the run begins
StaleFile == [OldFile EXCEPT !.reset_at = 0]

\* the state after construction, the process starting at time t
StartedAt(t) ==
    /\ now = t
    /\ bucket = [tokens |-> burst_capacity, last_refill |-> t]
    /\ cache = EmptyMap
    /\ semCtr = 0
    /\ jwt = EmptyMap
    /\ quota = EmptyMap
    /\ files \in {Insert(EmptyMap, "bob", f) : f \in {OldFile, StaleFile}}
    /\ tmp = EmptyMap
    /\ req = [r \in Reqs |-> IdleReq]
    /\ snap = EmptyMap
    /\ sd = [pc |-> "run", pending |-> {}, cur |-> NoUser]
    /\ attempts = EmptyMap
    /\ users = [u \in Users |-> ConfigUser(u)]
    /\ ufiles = [u \in Users |-> to_string_pretty(ConfigUser(u))]
    /\ adm = [a \in Adms |-> IdleAdm]
    /\ cstream = CountingStream_new
    /\ waiting_count = 0
    /\ permits = requests_per_second
    /\ acq = [c \in Callers |-> IdleCall]

Init == StartedAt(0)

\* ---------------------------------------------------------------------------
\* The clock
\* ---------------------------------------------------------------------------
Tick ==
    /\ now < MaxTime
    /\ now' = now + 1
    /\ UNCHANGED <<bucket, cache, semCtr, jwt, quota, files, tmp, req, snap, sd, attempts,
                   users, ufiles, adm, cstream, glm_proxy>>

\* ---------------------------------------------------------------------------
\* Login (auth/handler.rs) and get_or_generate (proxy/limiter.rs)
\* ---------------------------------------------------------------------------
\* a get_or_generate that mints at every call
get_or_generate_remint(c, u, t, id) ==
    Insert(Retain(c, t), u, [token |-> id, semaphore |-> id, expires_at |-> t + Ttl])

\* the cache after get_or_generate(u) at time t, `id` naming the token and the
\* semaphore it creates when the user has no live entry
get_or_generate(c, u, t, id) ==
    IF u \in DOMAIN Retain(c, t)
    THEN Retain(c, t)
    ELSE Insert(Retain(c, t), u,
                [token |-> id, semaphore |-> id, expires_at |-> t + Ttl])

\* an account test that finds every account active
Deactivated_never(user) == FALSE

\* !user.is_active
Deactivated(user) == ~user.is_active

\* login(): the exit the handler takes for a login of u from ip in the current
\* state, pw_ok telling whether find_user accepts the credentials
login(u, ip, pw_ok) ==
    IF ~Admits(bucket, now) THEN "global"
    ELSE IF should_block(attempts, key(u, ip)) THEN "blocked"
    ELSE IF ~find_user(users, u, pw_ok)
    THEN IF should_block(record_failure(attempts, key(u, ip), now), key(u, ip))
         THEN "armed"
         ELSE "credentials"
    ELSE IF Deactivated(users[u]) THEN "inactive"
    ELSE "ok"

\* the status code of each exit: Ok(Json(..)), AppError::Unauthorized,
\* AppError::TooManyRequests
StatusOf(exit) ==
    CASE exit = "ok" -> 200
      [] exit = "credentials" -> 401
      [] exit = "inactive" -> 401
      [] OTHER -> 429

\* the status code a login of u from ip gets in the current state
login_status(u, ip, pw_ok) == StatusOf(login(u, ip, pw_ok))

\* the token a successful login of u returns in the current state
login_token(u) == get_or_generate(cache, u, now, semCtr + 1)[u].token

\* JwtService::get_ttl_seconds: the configured token_ttl_seconds
get_ttl_seconds == Ttl

\* LoginResponse.expires_in of a successful login
login_expires_in == get_ttl_seconds

\* the 60 seconds of the start-up log line, token_ttl_seconds.min(60), on the
\* scale of the model's clock: below the configured Ttl
ReuseWindowCap == 1

\* login refused by the global bucket, whatever the password
LoginLimited(u, ip) ==
    /\ Accepting
    /\ login(u, ip, TRUE) = "global"
    /\ bucket' = AfterAcquire(bucket, now)
    /\ UNCHANGED <<now, cache, semCtr, jwt, quota, files, tmp, req, snap, sd,
                   attempts,
                   users, ufiles, adm, cstream, glm_proxy>>

\* login refused by the brute-force check that precedes the credential
\* lookup, whatever the password
LoginBlocked(u, ip) ==
    /\ Accepting
    /\ login(u, ip, TRUE) = "blocked"
    /\ bucket' = AfterAcquire(bucket, now)
    /\ UNCHANGED <<now, cache, semCtr, jwt, quota, files, tmp, req, snap, sd,
                   attempts,
                   users, ufiles, adm, cstream, glm_proxy>>

\* login with a wrong password: find_user returns None, the failure is
\* recorded and the brute-force check is made again
LoginFailed(u, ip) ==
    /\ Accepting
    /\ login(u, ip, FALSE) \in {"credentials", "armed"}
    /\ bucket' = AfterAcquire(bucket, now)
    /\ attempts' = record_failure(attempts, key(u, ip), now)
    /\ UNCHANGED <<now, cache, semCtr, jwt, quota, files, tmp, req, snap, sd,
                   users, ufiles, adm, cstream, glm_proxy>>

\* login of a deactivated user with the right password
LoginInactive(u, ip) ==
    /\ Accepting
    /\ login(u, ip, TRUE) = "inactive"
    /\ bucket' = AfterAcquire(bucket, now)
    /\ UNCHANGED <<now, cache, semCtr, jwt, quota, files, tmp, req, snap, sd,
                   attempts, users, ufiles, adm, cstream, glm_proxy>>

\* login of an active user with the right password
LoginOk(u, ip) ==
    /\ Accepting
    /\ login(u, ip, TRUE) = "ok"
    /\ semCtr < MaxSem
    /\ bucket' = AfterAcquire(bucket, now)
    /\ cache' = get_or_generate(cache, u, now, semCtr + 1)
    /\ IF u \in DOMAIN Retain(cache, now)
       THEN UNCHANGED <<semCtr, jwt, glm_proxy>>
       ELSE /\ semCtr' = semCtr + 1
            /\ jwt' = Insert(jwt, u, now + Ttl)
    /\ attempts' = reset_on_success(attempts, key(u, ip))
    /\ UNCHANGED <<now, quota, files, tmp, req, snap, sd,
                   users, ufiles, adm, cstream, glm_proxy>>

\* ---------------------------------------------------------------------------
\* Admin routes (main.rs, admin/middleware.rs, admin/handler.rs) and the
\* UserManager calls they make (auth/user_manager.rs)
\* ---------------------------------------------------------------------------
\* the admin requests are numbered in their order of arrival
Arrives(a) ==
    /\ adm[a].pc = "idle"
    /\ \A h \in Adms : h < a => adm[h].pc # "idle"

\* the response that ends the admin request of a peer; the task and its locals
\* are gone
Answer(peer, code, body) ==
    [IdleAdm EXCEPT !.pc = "done", !.peer = peer, !.code = code, !.body = body]

AdminOps == {"create_user", "set_user_active", "get_user", "list_users"}

\* localhost_only: a request of a peer that is not loopback is answered 403 and
\* next.run is not called
AdminForbidden(a, peer, op, name) ==
    /\ Arrives(a)
    /\ ~is_loopback(peer)
    /\ adm' = [adm EXCEPT ![a] = Answer(peer, 403, {})]
    /\ UNCHANGED <<now, bucket, cache, semCtr, jwt, quota, files, tmp, req, snap,
                   sd, attempts, users, ufiles, cstream, glm_proxy>>

\* POST /admin/users : create_user up to its call of save_user; the username
\* is one validate_username accepts
CreateUser(a, peer, name, pw, tier) ==
    /\ Arrives(a)
    /\ is_loopback(peer)
    /\ adm' = [adm EXCEPT ![a] =
                 IF name \in DOMAIN users
                 THEN Answer(peer, 500, {})
                 ELSE [IdleAdm EXCEPT !.pc = "create", !.peer = peer,
                                      !.op = "create_user", !.name = name,
                                      !.user = CreatedUser(name, pw, tier, now)]]
    /\ UNCHANGED <<now, bucket, cache, semCtr, jwt, quota, files, tmp, req, snap,
                   sd, attempts, users, ufiles, cstream, glm_proxy>>

\* POST /admin/users/:username/active : set_user_active up to its call of
\* save_user
SetUserActive(a, peer, name, x) ==
    /\ Arrives(a)
    /\ is_loopback(peer)
    /\ adm' = [adm EXCEPT ![a] =
                 IF name \notin DOMAIN users
                 THEN Answer(peer, 404, {})
                 ELSE [IdleAdm EXCEPT !.pc = "create", !.peer = peer,
                                      !.op = "set_user_active", !.name = name,
                                      !.user = Activated(users[name], x, now)]]
    /\ UNCHANGED <<now, bucket, cache, semCtr, jwt, quota, files, tmp, req, snap,
                   sd, attempts, users, ufiles, cstream, glm_proxy>>

\* save_user, fs::write, first half: File::create makes the file or truncates
\* the one that is there
SaveUserCreate(a) ==
    /\ adm[a].pc = "create"
    /\ \E ok \in BOOLEAN :
          IF ok
          THEN /\ ufiles' = Insert(ufiles, adm[a].name, EmptyFile)
               /\ adm' = [adm EXCEPT ![a].pc = "write_all"]
          ELSE /\ ufiles' = ufiles
               /\ adm' = [adm EXCEPT ![a] = Answer(adm[a].peer, 500, {})]
    /\ UNCHANGED <<now, bucket, cache, semCtr, jwt, quota, files, tmp, req, snap,
                   sd, attempts, users, cstream, glm_proxy>>

\* save_user, fs::write, second half: write_all puts the document in the file
SaveUserWriteAll(a) ==
    /\ adm[a].pc = "write_all"
    /\ \E ok \in BOOLEAN :
          IF ok
          THEN /\ ufiles' = Insert(ufiles, adm[a].name, to_string_pretty(adm[a].user))
               /\ adm' = [adm EXCEPT ![a].pc = "insert"]
          ELSE /\ ufiles' = ufiles
               /\ adm' = [adm EXCEPT ![a] = Answer(adm[a].peer, 500, {})]
    /\ UNCHANGED <<now, bucket, cache, semCtr, jwt, quota, files, tmp, req, snap,
                   sd, attempts, users, cstream, glm_proxy>>

\* save_user, last step: users.insert under the write lock; the handler
\* answers 200
SaveUserInsert(a) ==
    /\ adm[a].pc = "insert"
    /\ users' = insert_user(users, adm[a].user)
    /\ adm' = [adm EXCEPT ![a] = Answer(adm[a].peer, 200, {})]
    /\ UNCHANGED <<now, bucket, cache, semCtr, jwt, quota, files, tmp, req, snap,
                   sd, attempts, ufiles, cstream, glm_proxy>>

\* GET /admin/users/:username
GetUser(a, peer, name) ==
    /\ Arrives(a)
    /\ is_loopback(peer)
    /\ adm' = [adm EXCEPT ![a] =
                 IF name \in DOMAIN users
                 THEN Answer(peer, 200, {UserInfo(users[name])})
                 ELSE Answer(peer, 404, {})]
    /\ UNCHANGED <<now, bucket, cache, semCtr, jwt, quota, files, tmp, req, snap,
                   sd, attempts, users, ufiles, cstream, glm_proxy>>

\* GET /admin/users
ListUsers(a, peer) ==
    /\ Arrives(a)
    /\ is_loopback(peer)
    /\ adm' = [adm EXCEPT ![a] =
                 Answer(peer, 200, {UserInfo(users[u]) : u \in DOMAIN users})]
    /\ UNCHANGED <<now, bucket, cache, semCtr, jwt, quota, files, tmp, req, snap,
                   sd, attempts, users, ufiles, cstream, glm_proxy>>

\* ---------------------------------------------------------------------------
\* proxy_chat (proxy/handler.rs)
\* ---------------------------------------------------------------------------
\* validate_token: the bearer token's signature and `exp`
validate_token(u, t) == u \in DOMAIN jwt /\ t <= jwt[u] + JwtLeeway

\* auth middleware: a request of user u enters proxy_chat; the requests are
\* numbered in their order of arrival
Start(r, u) ==
    /\ Accepting
    /\ req[r].pc = "idle"
    /\ \A h \in Reqs : h < r => req[h].pc # "idle"
    /\ validate_token(u, now)
    /\ req' = [req EXCEPT ![r] = [IdleReq EXCEPT !.pc = "global", !.user = u]]
    /\ UNCHANGED <<now, bucket, cache, semCtr, jwt, quota, files, tmp, snap, sd, attempts,
                   users, ufiles, adm, cstream, glm_proxy>>

\* step 0: global_rate_limiter.acquire()
GlobalLimit(r) ==
    /\ req[r].pc = "global"
    /\ bucket' = AfterAcquire(bucket, now)
    /\ req' = [req EXCEPT ![r] =
                 IF Admits(bucket, now)
                 THEN [@ EXCEPT !.pc = "quota", !.steps = @ \cup {"global"}]
                 ELSE Fail(r, 429, "global", <<>>)]
    /\ UNCHANGED <<now, cache, semCtr, jwt, quota, files, tmp, snap, sd, attempts,
                   users, ufiles, adm, cstream, glm_proxy>>

\* check_quota(user): lazy load, then compare used_count with monthly_limit
check_quota(q, u, t) == load_or_init(q, u, t)

\* step 1: quota check (no charge)
QuotaCheck(r) ==
    LET u == req[r].user
        q == check_quota(quota, u, now)
    IN  /\ req[r].pc = "quota"
        /\ Loadable(quota, u)
        /\ quota' = q
        /\ req' = [req EXCEPT ![r] =
                     IF Exceeded(q[u])
                     THEN Fail(r, 402, "quota",
                               <<q[u].used_count, q[u].monthly_limit, q[u].reset_at>>)
                     ELSE [@ EXCEPT !.pc = "permit", !.steps = @ \cup {"quota"}]]
        /\ UNCHANGED <<now, bucket, cache, semCtr, jwt, files, tmp, snap, sd, attempts,
                   users, ufiles, adm, cstream, glm_proxy>>

\* step 1, a first access of a user the lookup does not find: load_or_init
\* returns AppError::Unauthorized before it inserts anything
QuotaCheckNoUser(r) ==
    LET u == req[r].user
    IN  /\ req[r].pc = "quota"
        /\ ~Loadable(quota, u)
        /\ req' = [req EXCEPT ![r] = Fail(r, 401, "no_user", <<>>)]
        /\ UNCHANGED <<now, bucket, cache, semCtr, jwt, quota, files, tmp, snap, sd, attempts,
                   users, ufiles, adm, cstream, glm_proxy>>

\* step 1, the quota file exists and cannot be read or parsed
QuotaCheckReadError(r) ==
    LET u == req[r].user
    IN  /\ req[r].pc = "quota"
        /\ u \notin DOMAIN quota
        /\ u \in DOMAIN files
        /\ req' = [req EXCEPT ![r] = Fail(r, 500, "quota_read", <<>>)]
        /\ UNCHANGED <<now, bucket, cache, semCtr, jwt, quota, files, tmp, snap, sd, attempts,
                   users, ufiles, adm, cstream, glm_proxy>>

\* acquire_permit_by_username: "ok", "busy" or "none"
acquire_permit_by_username(c, u, t) ==
    IF u \in DOMAIN Retain(c, t)
    THEN IF try_acquire_owned(Retain(c, t)[u].semaphore) THEN "ok" ELSE "busy"
    ELSE "none"

\* step 2: the per-user permit
AcquirePermit(r) ==
    LET u == req[r].user
        res == acquire_permit_by_username(cache, u, now)
    IN  /\ req[r].pc = "permit"
        /\ cache' = Retain(cache, now)
        /\ req' = [req EXCEPT ![r] =
                     CASE res = "ok" ->
                            [@ EXCEPT !.pc = "upstream", !.steps = @ \cup {"permit"},
                                      !.permit = Retain(cache, now)[u].semaphore]
                       [] res = "busy" -> Fail(r, 429, "busy", <<>>)
                       [] OTHER -> Fail(r, 401, "token_expired", <<>>)]
        /\ UNCHANGED <<now, bucket, semCtr, jwt, quota, files, tmp, snap, sd, attempts,
                   users, ufiles, adm, cstream, glm_proxy>>

\* a failure path that answers 502 but keeps the permit alive
UpstreamFailed_keeps_permit(r) ==
    [req[r] EXCEPT !.pc = "done", !.code = 502, !.why = "upstream"]

\* the response proxy_chat gives when chat_stream returns Err(GlmError)
UpstreamFailed(r) == Fail(r, 502, "upstream", <<>>)

\* step 5: chat_stream, upstream answers 2xx or fails
Upstream(r) ==
    /\ req[r].pc = "upstream"
    /\ \E ok \in BOOLEAN :
          req' = [req EXCEPT ![r] =
                    IF ok
                    THEN [@ EXCEPT !.pc = "inc", !.steps = @ \cup {"upstream"}]
                    ELSE UpstreamFailed(r)]
    /\ UNCHANGED <<now, bucket, cache, semCtr, jwt, quota, files, tmp, snap, sd, attempts,
                   users, ufiles, adm, cstream, glm_proxy>>

\* step 6, first critical sections of increment_quota: lazy load, then the
\* month reset when now > reset_at
IncReset(r) ==
    LET u == req[r].user
        q == load_or_init(quota, u, now)
    IN  /\ req[r].pc = "inc"
        /\ IF NeedReset(q[u], now)
           THEN /\ quota' = [q EXCEPT ![u] = ResetState(q[u], now)]
                /\ req' = [req EXCEPT ![r].pc = "rs_snap",
                                      ![r].steps = @ \cup {"reset"}]
           ELSE /\ quota' = q
                /\ req' = [req EXCEPT ![r].pc = "count"]
        /\ UNCHANGED <<now, bucket, cache, semCtr, jwt, files, tmp, snap, sd, attempts,
                   users, ufiles, adm, cstream, glm_proxy>>

\* step 6, the counting critical section: fetch-add, then the interval test
Count(r) ==
    LET u == req[r].user
        st == increment(quota[u])
    IN  /\ req[r].pc = "count"
        /\ IF IntervalReached(st)
           THEN /\ quota' = [quota EXCEPT ![u] = MarkSaved(st)]
                /\ req' = [req EXCEPT ![r].pc = "fs_snap",
                                      ![r].steps = @ \cup {"count"}]
           ELSE /\ quota' = [quota EXCEPT ![u] = st]
                /\ req' = [req EXCEPT ![r].pc = "stream",
                                      ![r].steps = @ \cup {"count"}]
        /\ UNCHANGED <<now, bucket, cache, semCtr, jwt, files, tmp, snap, sd, attempts,
                   users, ufiles, adm, cstream, glm_proxy>>

\* ---------------------------------------------------------------------------
\* save_one (quota/manager.rs), called by a request r
\* ---------------------------------------------------------------------------
\* where a request continues after save_one returned Ok
AfterSave(pc) == IF pc = "rs_rename" THEN "count" ELSE "stream"

\* the error of a save_one that failed inside increment_quota
SaveFailed(r) ==
    Fail(r, 500, IF req[r].pc \in {"rs_write", "rs_fill", "rs_rename"}
                 THEN "reset_flush" ELSE "interval_flush", <<>>)

\* 1. lock, clone the state, unlock
SaveSnap(r) ==
    /\ req[r].pc \in {"rs_snap", "fs_snap"}
    /\ snap' = Insert(snap, r, quota[req[r].user])
    /\ req' = [req EXCEPT ![r].pc = IF @ = "rs_snap" THEN "rs_write" ELSE "fs_write"]
    /\ UNCHANGED <<now, bucket, cache, semCtr, jwt, quota, files, tmp, sd, attempts,
                   users, ufiles, adm, cstream, glm_proxy>>

\* 2. fs::write(temp_path, json), first half: File::create makes the temp file
\* or truncates the one that is there; the error of a failed fs::write is
\* taken here
SaveWrite(r) ==
    /\ req[r].pc \in {"rs_write", "fs_write"}
    /\ \E ok \in BOOLEAN :
          IF ok
          THEN /\ tmp' = Insert(tmp, req[r].user, TruncatedJson)
               /\ req' = [req EXCEPT ![r].pc = IF @ = "rs_write" THEN "rs_fill"
                                                ELSE "fs_fill"]
               /\ snap' = snap
          ELSE /\ tmp' = tmp
               /\ req' = [req EXCEPT ![r] = SaveFailed(r)]
               /\ snap' = Remove(snap, r)
    /\ UNCHANGED <<now, bucket, cache, semCtr, jwt, quota, files, sd, attempts,
                   users, ufiles, adm, cstream, glm_proxy>>

\* 2. fs::write(temp_path, json), second half: write_all puts the json in the
\* temp file
SaveWriteAll(r) ==
    /\ req[r].pc \in {"rs_fill", "fs_fill"}
    /\ tmp' = Insert(tmp, req[r].user, Serialize(snap[r]))
    /\ req' = [req EXCEPT ![r].pc = IF @ = "rs_fill" THEN "rs_rename"
                                     ELSE "fs_rename"]
    /\ UNCHANGED <<now, bucket, cache, semCtr, jwt, quota, files, snap, sd,
                   attempts, users, ufiles, adm, cstream, glm_proxy>>

\* 3. fs::rename(temp_path, file_path); it fails when the temp file is gone
\* (a concurrent save_one of the same user renamed it away)
SaveRename(r) ==
    LET u == req[r].user
    IN  /\ req[r].pc \in {"rs_rename", "fs_rename"}
        /\ IF u \in DOMAIN tmp
           THEN /\ files' = Insert(files, u, tmp[u])
                /\ tmp' = Remove(tmp, u)
                /\ req' = [req EXCEPT ![r].pc = AfterSave(@)]
           ELSE /\ UNCHANGED <<files, tmp, glm_proxy>>
                /\ req' = [req EXCEPT ![r] = SaveFailed(r)]
        /\ snap' = Remove(snap, r)
        /\ UNCHANGED <<now, bucket, cache, semCtr, jwt, quota, sd, attempts,
                   users, ufiles, adm, cstream, glm_proxy>>

\* ---------------------------------------------------------------------------
\* The response stream (PermitGuardedStream inside CountingStream)
\* ---------------------------------------------------------------------------
\* the stream ends (end of the upstream stream, an upstream error, the client
\* going away): the body is dropped, and the permit with it
StreamEnd(r) ==
    /\ req[r].pc = "stream"
    /\ req' = [req EXCEPT ![r].pc = "done", ![r].permit = 0, ![r].code = 200,
                          ![r].why = "stream_end"]
    /\ UNCHANGED <<now, bucket, cache, semCtr, jwt, quota, files, tmp, snap, sd, attempts,
                   users, ufiles, adm, cstream, glm_proxy>>

\* ---------------------------------------------------------------------------
\* shutdown_signal (main.rs) and save_all (quota/manager.rs)
\* ---------------------------------------------------------------------------
\* ctrl_c, then save_all collects the dirty users under the lock
CtrlC ==
    /\ sd.pc = "run"
    /\ sd' = [sd EXCEPT !.pc = "sa_loop",
                        !.pending = {u \in DOMAIN quota : quota[u].dirty}]
    /\ UNCHANGED <<now, bucket, cache, semCtr, jwt, quota, files, tmp, req, snap, attempts,
                   users, ufiles, adm, cstream, glm_proxy>>

\* for username in dirty_users (a HashMap's order), or the end of save_all
SaveAllNext ==
    /\ sd.pc = "sa_loop"
    /\ IF sd.pending = {}
       THEN sd' = [sd EXCEPT !.pc = "closed", !.cur = NoUser]
       ELSE \E u \in sd.pending :
               sd' = [sd EXCEPT !.pc = "sa_snap", !.cur = u, !.pending = @ \ {u}]
    /\ UNCHANGED <<now, bucket, cache, semCtr, jwt, quota, files, tmp, req, snap, attempts,
                   users, ufiles, adm, cstream, glm_proxy>>

SaveAllSnap ==
    /\ sd.pc = "sa_snap"
    /\ snap' = Insert(snap, SdTask, quota[sd.cur])
    /\ sd' = [sd EXCEPT !.pc = "sa_write"]
    /\ UNCHANGED <<now, bucket, cache, semCtr, jwt, quota, files, tmp, req, attempts,
                   users, ufiles, adm, cstream, glm_proxy>>

SaveAllWrite ==
    /\ sd.pc = "sa_write"
    /\ \E ok \in BOOLEAN :
          IF ok
          THEN /\ tmp' = Insert(tmp, sd.cur, TruncatedJson)
               /\ sd' = [sd EXCEPT !.pc = "sa_fill"]
               /\ snap' = snap
          ELSE /\ tmp' = tmp
               /\ sd' = [sd EXCEPT !.pc = "closed", !.pending = {}]
               /\ snap' = Remove(snap, SdTask)
    /\ UNCHANGED <<now, bucket, cache, semCtr, jwt, quota, files, req, attempts,
                   users, ufiles, adm, cstream, glm_proxy>>

SaveAllWriteAll ==
    /\ sd.pc = "sa_fill"
    /\ tmp' = Insert(tmp, sd.cur, Serialize(snap[SdTask]))
    /\ sd' = [sd EXCEPT !.pc = "sa_rename"]
    /\ UNCHANGED <<now, bucket, cache, semCtr, jwt, quota, files, req, snap,
                   attempts, users, ufiles, adm, cstream, glm_proxy>>

SaveAllRename ==
    /\ sd.pc = "sa_rename"
    /\ IF sd.cur \in DOMAIN tmp
       THEN /\ files' = Insert(files, sd.cur, tmp[sd.cur])
            /\ tmp' = Remove(tmp, sd.cur)
            /\ sd' = [sd EXCEPT !.pc = "sa_loop"]
       ELSE /\ UNCHANGED <<files, tmp, glm_proxy>>
            /\ sd' = [sd EXCEPT !.pc = "closed", !.pending = {}]
    /\ snap' = Remove(snap, SdTask)
    /\ UNCHANGED <<now, bucket, cache, semCtr, jwt, quota, req, attempts,
                   users, ufiles, adm, cstream, glm_proxy>>

\* ---------------------------------------------------------------------------
\* Specifications
\* ---------------------------------------------------------------------------
\* the server while it serves clients that present the right password: logins
\* and MaxReq chat requests
\* (a login the global bucket refuses, LoginLimited, changes no variable: it is
\* one of the stuttering steps of [][Next]_vars and is listed in NextLogin only)
Next ==
    \/ Tick
    \/ \E u \in Users, ip \in Ips : LoginOk(u, ip)
    \/ \E r \in Reqs, u \in Users : Start(r, u)
    \/ \E r \in Reqs : GlobalLimit(r)
    \/ \E r \in Reqs : QuotaCheck(r)
    \/ \E r \in Reqs : QuotaCheckReadError(r)
    \/ \E r \in Reqs : AcquirePermit(r)
    \/ \E r \in Reqs : Upstream(r)
    \/ \E r \in Reqs : IncReset(r)
    \/ \E r \in Reqs : Count(r)
    \/ \E r \in Reqs : SaveSnap(r)
    \/ \E r \in Reqs : SaveWrite(r)
    \/ \E r \in Reqs : SaveWriteAll(r)
    \/ \E r \in Reqs : SaveRename(r)
    \/ \E r \in Reqs : StreamEnd(r)

Spec == Init /\ [][Next]_vars

\* the server with its shutdown task: the same actions with MaxReqSd chat requests,
\* and ctrl-c with the save_all it starts
NextSd ==
    \/ Tick
    \/ \E u \in Users, ip \in Ips : LoginOk(u, ip)
    \/ \E r \in ReqsSd, u \in Users : Start(r, u)
    \/ \E r \in ReqsSd : GlobalLimit(r)
    \/ \E r \in ReqsSd : QuotaCheck(r)
    \/ \E r \in ReqsSd : QuotaCheckReadError(r)
    \/ \E r \in ReqsSd : AcquirePermit(r)
    \/ \E r \in ReqsSd : Upstream(r)
    \/ \E r \in ReqsSd : IncReset(r)
    \/ \E r \in ReqsSd : Count(r)
    \/ \E r \in ReqsSd : SaveSnap(r)
    \/ \E r \in ReqsSd : SaveWrite(r)
    \/ \E r \in ReqsSd : SaveWriteAll(r)
    \/ \E r \in ReqsSd : SaveRename(r)
    \/ \E r \in ReqsSd : StreamEnd(r)
    \/ CtrlC
    \/ SaveAllNext
    \/ SaveAllSnap
    \/ SaveAllWrite
    \/ SaveAllWriteAll
    \/ SaveAllRename

SpecSd == Init /\ [][NextSd]_vars

\* the login endpoint alone, with clients that also present wrong passwords
NextLogin ==
    \/ Tick
    \/ \E u \in Users, ip \in Ips : LoginLimited(u, ip)
    \/ \E u \in Users, ip \in Ips : LoginBlocked(u, ip)
    \/ \E u \in Users, ip \in Ips : LoginFailed(u, ip)
    \/ \E u \in Users, ip \in Ips : LoginOk(u, ip)

SpecLogin == Init /\ [][NextLogin]_vars

\* the admin routes
NextAdmin ==
    \/ Tick
    \/ \E a \in Adms, peer \in Peers, op \in AdminOps, name \in AdminNames :
          AdminForbidden(a, peer, op, name)
    \/ \E a \in Adms, peer \in Peers, name \in AdminNames, c \in Credentials :
          CreateUser(a, peer, name, c[1], c[2])
    \/ \E a \in Adms, peer \in Peers, name \in AdminNames, x \in BOOLEAN :
          SetUserActive(a, peer, name, x)
    \/ \E a \in Adms : SaveUserCreate(a)
    \/ \E a \in Adms : SaveUserWriteAll(a)
    \/ \E a \in Adms : SaveUserInsert(a)
    \/ \E a \in Adms, peer \in Peers, name \in AdminNames : GetUser(a, peer, name)
    \/ \E a \in Adms, peer \in Peers : ListUsers(a, peer)

SpecAdmin == Init /\ [][NextAdmin]_vars

\* the login endpoint at one instant, with clients that present the right
\* password, while an admin activates and deactivates accounts
NextAccounts ==
    \/ \E u \in Users, ip \in Ips : LoginLimited(u, ip)
    \/ \E u \in Users, ip \in Ips : LoginInactive(u, ip)
    \/ \E u \in Users, ip \in Ips : LoginOk(u, ip)
    \/ \E a \in Adms, peer \in Peers, name \in Users, x \in BOOLEAN :
          SetUserActive(a, peer, name, x)
    \/ \E a \in Adms : SaveUserCreate(a)
    \/ \E a \in Adms : SaveUserWriteAll(a)
    \/ \E a \in Adms : SaveUserInsert(a)

SpecAccounts == Init /\ [][NextAccounts]_vars

\* the server at one instant with the admin creating NewUser while the users,
\* NewUser among them, log in and send chat requests
AllUsers == Users \cup {NewUser}

NextRuntime ==
    \/ \E a \in Adms, c \in Credentials : CreateUser(a, Loopback, NewUser, c[1], c[2])
    \/ \E a \in Adms : SaveUserCreate(a)
    \/ \E a \in Adms : SaveUserWriteAll(a)
    \/ \E a \in Adms : SaveUserInsert(a)
    \/ \E u \in AllUsers, ip \in Ips : LoginOk(u, ip)
    \/ \E r \in Reqs, u \in AllUsers : Start(r, u)
    \/ \E r \in Reqs : GlobalLimit(r)
    \/ \E r \in Reqs : QuotaCheck(r)
    \/ \E r \in Reqs : QuotaCheckNoUser(r)
    \/ \E r \in Reqs : QuotaCheckReadError(r)
    \/ \E r \in Reqs : AcquirePermit(r)
    \/ \E r \in Reqs : Upstream(r)
    \/ \E r \in Reqs : IncReset(r)
    \/ \E r \in Reqs : Count(r)
    \/ \E r \in Reqs : SaveSnap(r)
    \/ \E r \in Reqs : SaveWrite(r)
    \/ \E r \in Reqs : SaveWriteAll(r)
    \/ \E r \in Reqs : SaveRename(r)
    \/ \E r \in Reqs : StreamEnd(r)

SpecRuntime == Init /\ [][NextRuntime]_vars

\* the server started at any instant of two calendar years, serving at that
\* instant: every lazy load and every month reset computes next_month_reset
CalendarYears == 2
CalendarTimes == 0..((CalendarYears * MonthsPerYear * MonthLen) - 1)

InitCalendar == \E t \in CalendarTimes : StartedAt(t)

NextCalendar ==
    \/ \E u \in Users, ip \in Ips : LoginOk(u, ip)
    \/ \E r \in Reqs, u \in Users : Start(r, u)
    \/ \E r \in Reqs : GlobalLimit(r)
    \/ \E r \in Reqs : QuotaCheck(r)
    \/ \E r \in Reqs : AcquirePermit(r)
    \/ \E r \in Reqs : Upstream(r)
    \/ \E r \in Reqs : IncReset(r)
    \/ \E r \in Reqs : Count(r)
    \/ \E r \in Reqs : SaveSnap(r)
    \/ \E r \in Reqs : SaveWrite(r)
    \/ \E r \in Reqs : SaveWriteAll(r)
    \/ \E r \in Reqs : SaveRename(r)
    \/ \E r \in Reqs : StreamEnd(r)

SpecCalendar == InitCalendar /\ [][NextCalendar]_vars

\* the server with its shutdown task and MaxReq chat requests of one user: the
\* interval flushes, reset flushes and save_all of that user interleave
FlushUser == "alice"

NextFlush ==
    \/ Tick
    \/ \E ip \in Ips : LoginOk(FlushUser, ip)
    \/ \E r \in Reqs : Start(r, FlushUser)
    \/ \E r \in Reqs : GlobalLimit(r)
    \/ \E r \in Reqs : QuotaCheck(r)
    \/ \E r \in Reqs : AcquirePermit(r)
    \/ \E r \in Reqs : Upstream(r)
    \/ \E r \in Reqs : IncReset(r)
    \/ \E r \in Reqs : Count(r)
    \/ \E r \in Reqs : SaveSnap(r)
    \/ \E r \in Reqs : SaveWrite(r)
    \/ \E r \in Reqs : SaveWriteAll(r)
    \/ \E r \in Reqs : SaveRename(r)
    \/ \E r \in Reqs : StreamEnd(r)
    \/ CtrlC
    \/ SaveAllNext
    \/ SaveAllSnap
    \/ SaveAllWrite
    \/ SaveAllWriteAll
    \/ SaveAllRename

SpecFlush == Init /\ [][NextFlush]_vars

\* the server at one instant, serving logins and chat requests while an admin
\* activates and deactivates accounts
NextDeactivate ==
    \/ \E u \in Users, ip \in Ips : LoginInactive(u, ip)
    \/ \E u \in Users, ip \in Ips : LoginOk(u, ip)
    \/ \E a \in Adms, name \in Users, x \in BOOLEAN :
          SetUserActive(a, Loopback, name, x)
    \/ \E a \in Adms : SaveUserCreate(a)
    \/ \E a \in Adms : SaveUserWriteAll(a)
    \/ \E a \in Adms : SaveUserInsert(a)
    \/ \E r \in Reqs, u \in Users : Start(r, u)
    \/ \E r \in Reqs : GlobalLimit(r)
    \/ \E r \in Reqs : QuotaCheck(r)
    \/ \E r \in Reqs : QuotaCheckReadError(r)
    \/ \E r \in Reqs : AcquirePermit(r)
    \/ \E r \in Reqs : Upstream(r)
    \/ \E r \in Reqs : IncReset(r)
    \/ \E r \in Reqs : Count(r)
    \/ \E r \in Reqs : SaveSnap(r)
    \/ \E r \in Reqs : SaveWrite(r)
    \/ \E r \in Reqs : SaveWriteAll(r)
    \/ \E r \in Reqs : SaveRename(r)
    \/ \E r \in Reqs : StreamEnd(r)

SpecDeactivate == Init /\ [][NextDeactivate]_vars

\* glm_proxy serving MaxCallers chat requests
NextGlm ==
    \/ \E c \in Callers : FetchAdd(c)
    \/ \E c \in Callers : QueueCheck(c)
    \/ \E c \in Callers : FirstPoll(c)
    \/ \E c \in Callers : Granted(c)
    \/ \E c \in Callers : Elapsed(c)
    \/ \E c \in Callers : Cancelled(c)
    \/ \E c \in Callers : FetchSub(c)
    \/ \E c \in Callers : PermitDropped(c)

SpecGlm == Init /\ [][NextGlm]_vars

\* one response body from the first poll to its drop
NextStream ==
    \/ \E polled \in Polls : PollNext(polled)
    \/ DropStream

SpecStream == Init /\ [][NextStream]_vars

\* ---------------------------------------------------------------------------
\* Vocabulary of the properties
\* ---------------------------------------------------------------------------
\* the task of request r took a step
Acted(r) == req'[r] # req[r]

\* u has a token entry that is live at time t
LiveEntry(c, u, t) == u \in DOMAIN c /\ t < c[u].expires_at

\* the requests of u that are in flight upstream: they own a permit
InFlight(u) == {r \in Reqs : req[r].user = u /\ req[r].permit # 0}

\* the pipeline positions from the acquisition of the permit to the end of the
\* response stream
HoldingPcs ==
    {"upstream", "inc", "rs_snap", "rs_write", "rs_fill", "rs_rename", "count",
     "fs_snap", "fs_write", "fs_fill", "fs_rename", "stream"}

C2_BusyRejected ==
    [][\A r \in Reqs :
         ( /\ req[r].pc = "permit"
           /\ Acted(r)
           /\ LiveEntry(cache, req[r].user, now)
           /\ \E h \in Reqs \ {r} : req[h].permit = cache[req[r].user].semaphore )
         => /\ req'[r].pc = "done"
            /\ req'[r].code = 429
            /\ req'[r].permit = 0
            /\ \A h \in Reqs \ {r} : req'[h] = req[h]
            /\ quota' = quota
            /\ files' = files]_vars

\* a request was turned away with 429 while another request of the same user
\* owns the permit of the live entry
C2_Witness ==
    \E r \in Reqs, h \in Reqs :
        /\ r # h
        /\ req[r].pc = "done" /\ req[r].code = 429 /\ req[r].why = "busy"
        /\ req[h].user = req[r].user
        /\ req[h].pc \in HoldingPcs
        /\ LiveEntry(cache, req[r].user, now)
        /\ req[h].permit = cache[req[r].user].semaphore

\* ---------------------------------------------------------------------------
\* C3
\* ---------------------------------------------------------------------------
\* the permit is owned at every position from acquisition to the end of the
\* stream, and by no request that has ended
C3_HeldWhileOpen ==
    \A r \in Reqs :
        /\ req[r].pc \in HoldingPcs => req[r].permit # 0
        /\ req[r].pc \in {"idle", "done"} => req[r].permit = 0

\* the step in which request r gives its permit back
Releases(r) == req[r].permit # 0 /\ req'[r].permit = 0

\* after a release, an acquire of that user that finds a live entry succeeds
C3_ReleaseFrees ==
    \A r \in Reqs :
        (Releases(r) /\ LiveEntry(cache', req[r].user, now'))
        => \A h \in Reqs : req'[h].permit # cache'[req[r].user].semaphore

\* C3: a permit acquired by proxy_chat stays owned until the response stream
\* terminates, is released when the stream terminates or the request fails,
\* and after the release a new acquire_permit_by_username of that user with a
\* live token entry succeeds.
C3_PermitLifetime == []C3_HeldWhileOpen /\ [][C3_ReleaseFrees]_vars

\* ---------------------------------------------------------------------------
\* Quota vocabulary
\* ---------------------------------------------------------------------------
\* the used_count of u: the cached one, else the one a lazy load would bring in
UsedOf(q, f, u) ==
    IF u \in DOMAIN q THEN q[u].used_count
    ELSE IF u \in DOMAIN f THEN f[u].used_count ELSE 0

\* the same for last_saved_count
LastSavedOf(q, f, u) ==
    IF u \in DOMAIN q THEN q[u].last_saved_count
    ELSE IF u \in DOMAIN f THEN f[u].last_saved_count ELSE 0

\* request r passes its counting critical section
Counts(r) == req[r].pc = "count" /\ req'[r].pc # "count"

\* request r performs the month reset
Resets(r) == req[r].pc = "inc" /\ req'[r].pc = "rs_snap"

\* request r was accepted by upstream and its increment_quota has returned
Charged(r) == "upstream" \in req[r].steps /\ req[r].pc \in {"stream", "done"}

\* ---------------------------------------------------------------------------
\* C4
\* ---------------------------------------------------------------------------
\* the used_count of a user changes only in the counting step of a request of
\* that user, by exactly one, or in the month reset such a request triggers
C4_CountEffect ==
    \A u \in Users :
        UsedOf(quota', files', u) # UsedOf(quota, files, u)
        => \E r \in Reqs :
              /\ req[r].user = u
              /\ \/ Counts(r) /\ UsedOf(quota', files', u) = UsedOf(quota, files, u) + 1
                 \/ Resets(r) /\ UsedOf(quota', files', u) = 0

\* every accepted request has counted once its increment has returned
C4_EveryAcceptedCounted ==
    \A r \in Reqs : Charged(r) => "count" \in req[r].steps

C4_AcceptedCountedUnlessResetFlushFailed ==
    \A r \in Reqs :
        (Charged(r) /\ req[r].why # "reset_flush") => "count" \in req[r].steps

C5_Order ==
    \A r \in Reqs :
        /\ "quota" \in req[r].steps => "global" \in req[r].steps
        /\ "permit" \in req[r].steps => "quota" \in req[r].steps
        /\ "upstream" \in req[r].steps => "permit" \in req[r].steps
        /\ req[r].steps \cap {"reset", "count"} # {} => "upstream" \in req[r].steps
        /\ req[r].why \in {"global", "quota"}
             => req[r].permit = 0 /\ "permit" \notin req[r].steps
        /\ req[r].code \in {429, 402, 401} => "upstream" \notin req[r].steps

\* a step of the global limit, the quota check or the permit acquire leaves
\* used_count and last_saved_count of every user, and every file, unchanged;
\* the first two leave the permits and the token entries unchanged as well
C5_Frame ==
    \A r \in Reqs :
        (req[r].pc \in {"global", "quota", "permit"} /\ Acted(r))
        => /\ \A u \in Users :
                /\ UsedOf(quota', files', u) = UsedOf(quota, files, u)
                /\ LastSavedOf(quota', files', u) = LastSavedOf(quota, files, u)
           /\ files' = files
           /\ req[r].pc \in {"global", "quota"}
                => req'[r].permit = 0 /\ cache' = cache

\* C5: the admission steps run in the order global limiter, quota check, permit
\* acquire, upstream call, quota increment; a request rejected at one step
\* leaves the state of the later steps unchanged.
C5_OrderedShortCircuit == []C5_Order /\ [][C5_Frame]_vars

\* a request passed the global limiter and the quota check, in that order, and
\* was rejected at the permit acquire, while a request of the same user has
\* gone through the whole pipeline and counted
C5_Witness ==
    \E r \in Reqs, h \in Reqs :
        /\ req[r].pc = "done" /\ req[r].why = "busy"
        /\ req[r].steps = {"global", "quota"}
        /\ req[h].user = req[r].user
        /\ {"global", "quota", "permit", "upstream", "count"} \subseteq req[h].steps
        /\ quota[req[r].user].used_count > 0

\* ---------------------------------------------------------------------------
\* C6
\* ---------------------------------------------------------------------------
C6_Response ==
    \A r \in Reqs :
        req[r].why = "upstream"
        => /\ req[r].code = 502
           /\ "count" \notin req[r].steps
           /\ req[r].permit = 0

\* the step in which chat_stream fails changes no quota state and sets the
\* semaphore of the request free
C6_Step ==
    \A r \in Reqs :
        (req[r].pc = "upstream" /\ req'[r].pc = "done")
        => /\ quota' = quota
           /\ files' = files
           /\ \A h \in Reqs : req'[h].permit # req[r].permit

\* C6: when the upstream call fails the client receives 502, the user's
\* used_count is not incremented and the permit of the request is released.
C6_UpstreamFailure == []C6_Response /\ [][C6_Step]_vars

C6_Witness ==
    \E r \in Reqs :
        /\ req[r].pc = "done" /\ req[r].why = "upstream"
        /\ "permit" \in req[r].steps
        /\ req[r].user \in DOMAIN quota

\* ---------------------------------------------------------------------------
\* C7
\* ---------------------------------------------------------------------------
\* C7: the in-memory used_count of a user is lowered by no step other than the
\* month reset (now > reset_at, used_count back to 0) of a request of that user.
C7_Monotone ==
    [][\A u \in DOMAIN quota :
         /\ u \in DOMAIN quota'
         /\ quota'[u].used_count < quota[u].used_count
              => /\ \E r \in Reqs : req[r].user = u /\ Resets(r)
                 /\ now > quota[u].reset_at
                 /\ quota'[u].used_count = 0]_vars

\* a user's count has gone up to the interval flush: used_count is at least the
\* save interval and was flushed
C7_Witness ==
    \E u \in DOMAIN quota :
        /\ quota[u].used_count >= SaveInterval
        /\ quota[u].last_saved_count = quota[u].used_count

\* ---------------------------------------------------------------------------
\* C8
\* ---------------------------------------------------------------------------
\* request r passes its quota check step
Checks(r) == req[r].pc = "quota" /\ Acted(r)

\* C8: with used_count = monthly_limit - 1 (reset_at in the future) the quota
\* check admits one more request and its increment raises used_count to
\* monthly_limit; with used_count = monthly_limit the quota check answers 402
\* with {used, limit, reset_at} and used_count stays at monthly_limit.
C8_LimitBoundary ==
    [][\A r \in Reqs :
         LET u == req[r].user
         IN  (u \in DOMAIN quota /\ now < quota[u].reset_at)
             => /\ (Checks(r) /\ quota[u].used_count = quota[u].monthly_limit - 1)
                     => req'[r].pc = "permit"
                /\ (Counts(r) /\ quota[u].used_count = quota[u].monthly_limit - 1)
                     => quota'[u].used_count = quota[u].monthly_limit
                /\ (Checks(r) /\ quota[u].used_count = quota[u].monthly_limit)
                     => /\ req'[r].pc = "done"
                        /\ req'[r].code = 402
                        /\ req'[r].body = <<quota[u].used_count, quota[u].monthly_limit,
                                            quota[u].reset_at>>
                        /\ quota'[u].used_count = quota[u].monthly_limit]_vars

\* a request was answered 402 at used = limit while the request that took the
\* last unit of the same user is still streaming
C8_Witness ==
    \E r \in Reqs, h \in Reqs :
        /\ req[r].pc = "done" /\ req[r].code = 402
        /\ req[r].body[1] = MonthlyLimit /\ req[r].body[2] = MonthlyLimit
        /\ req[h].user = req[r].user
        /\ req[h].pc = "stream" /\ "count" \in req[h].steps
        /\ quota[req[r].user].used_count = MonthlyLimit
        /\ now < quota[req[r].user].reset_at

\* ---------------------------------------------------------------------------
\* C9
\* ---------------------------------------------------------------------------
\* request r passes the reset test of its increment
TestsReset(r) == req[r].pc = "inc" /\ Acted(r)

\* C9: an increment whose time is at or after the stored reset_at first zeroes
\* used_count and last_saved_count, sets reset_at to the next month's reset and
\* saves at once, before it counts; an increment before reset_at does not reset.
C9_ResetAtBoundary ==
    [][\A r \in Reqs :
         LET u == req[r].user
         IN  (TestsReset(r) /\ u \in DOMAIN quota)
             => IF now >= quota[u].reset_at
                THEN /\ quota'[u].used_count = 0
                     /\ quota'[u].last_saved_count = 0
                     /\ quota'[u].reset_at = next_month_reset(now)
                     /\ req'[r].pc = "rs_snap"
                ELSE /\ quota'[u] = quota[u]
                     /\ req'[r].pc = "count"]_vars

\* ---------------------------------------------------------------------------
\* C10
\* ---------------------------------------------------------------------------
\* the rename of a save_one of user u succeeds: save_one returns Ok
SaveDone(u) ==
    \/ \E r \in Reqs :
          /\ req[r].user = u
          /\ req[r].pc \in {"rs_rename", "fs_rename"}
          /\ req'[r].pc = AfterSave(req[r].pc)
    \/ sd.cur = u /\ sd.pc = "sa_rename" /\ sd'.pc = "sa_loop"

\* C10: after any save_one of a user completes, the used_count in the user's
\* quota file equals the in-memory used_count.
C10_DiskEqualsMemoryAfterSave ==
    [][\A u \in Users :
         SaveDone(u) => files'[u].used_count = quota'[u].used_count]_vars

\* ---------------------------------------------------------------------------
\* C11
\* ---------------------------------------------------------------------------
\* save_all's save_one of sd.cur completes
SaveAllDone == sd.pc = "sa_rename" /\ sd'.pc = "sa_loop"

\* C11: the file that save_all at shutdown writes for a user with unflushed
\* increments, also when they are fewer than save_interval, has its
\* last_saved_count equal to its used_count.
C11_ShutdownFlushMarksSaved ==
    [][SaveAllDone
         => files'[sd.cur].last_saved_count = files'[sd.cur].used_count]_vars

\* ---------------------------------------------------------------------------
\* C12
\* ---------------------------------------------------------------------------
\* the used_count on disk; a user without a file has none counted there
DiskUsed(f, u) == IF u \in DOMAIN f THEN f[u].used_count ELSE 0

\* a request of u is inside a save_one
Flushing(u) ==
    \E r \in Reqs :
        /\ req[r].user = u
        /\ req[r].pc \in {"rs_snap", "rs_write", "rs_fill", "rs_rename",
                          "fs_snap", "fs_write", "fs_fill", "fs_rename"}

\* the counting step writes no file, and it starts a flush exactly when the
\* new used_count is save_interval or more above last_saved_count
C12_FlushExactlyAtInterval ==
    \A r \in Reqs :
        Counts(r)
        => LET u == req[r].user
           IN  /\ files' = files
               /\ req'[r].pc = "fs_snap"
                    <=> quota[u].used_count + 1 - quota[u].last_saved_count
                          >= SaveInterval

\* the file of a user who had none appears with used_count = save_interval
C12_FirstFile ==
    \A u \in Users :
        (u \notin DOMAIN files /\ u \in DOMAIN files')
        => files'[u].used_count = SaveInterval

\* outside a flush the disk lags the memory by at most save_interval - 1
C12_BoundedLag ==
    \A u \in DOMAIN quota :
        ~Flushing(u) => quota[u].used_count - DiskUsed(files, u) <= SaveInterval - 1

\* C12: the first increment of a user without a file takes used_count
\* from 0 to 1 and writes nothing; an increment flushes exactly when new
\* used_count - last_saved_count >= save_interval; the file first appears with
\* used_count = save_interval; between flushes the disk lags the memory by at
\* most save_interval - 1.
C12_CoalescedWrites ==
    /\ []C12_BoundedLag
    /\ [][C12_FlushExactlyAtInterval /\ C12_FirstFile]_vars

\* ---------------------------------------------------------------------------
\* C13
\* ---------------------------------------------------------------------------
\* the counters of every cached state are ordered and closer than save_interval
C13_Counters ==
    \A u \in DOMAIN quota :
        /\ 0 <= quota[u].last_saved_count
        /\ quota[u].last_saved_count <= quota[u].used_count
        /\ quota[u].used_count - quota[u].last_saved_count < SaveInterval

\* a flush of user u completes: the rename of a request's save_one (interval
\* or reset flush) or of save_all's save_one
FlushDone(u) ==
    \/ \E r \in Reqs :
          /\ req[r].user = u
          /\ req[r].pc \in {"rs_rename", "fs_rename"}
          /\ req'[r].pc = AfterSave(req[r].pc)
    \/ sd.cur = u /\ SaveAllDone

\* C13: in every reachable state every cached quota state has
\* 0 <= last_saved_count <= used_count, and right after any flush (interval
\* flush, reset flush or save_all) used_count - last_saved_count < save_interval.
C13_CounterInvariants ==
    /\ []C13_Counters
    /\ [][\A u \in Users :
            FlushDone(u)
            => /\ quota'[u].last_saved_count <= quota'[u].used_count
               /\ quota'[u].used_count - quota'[u].last_saved_count < SaveInterval]_vars

\* save_all has flushed a user whose used_count was above its
\* last_saved_count, after a request of that user counted and ended
C13_Witness ==
    /\ sd.pc = "closed"
    /\ \E u \in DOMAIN quota :
          /\ u \in DOMAIN files
          /\ files[u].used_count = quota[u].used_count
          /\ quota[u].last_saved_count < quota[u].used_count
          /\ \E r \in Reqs :
                req[r].user = u /\ req[r].pc = "done" /\ req[r].code = 200

\* ---------------------------------------------------------------------------
\* C14
\* ---------------------------------------------------------------------------
\* a successful login of a user with a live entry returns the entry's token
C14_ReturnsCachedToken ==
    \A u \in Users, ip \in Ips :
        (LiveEntry(cache, u, now) /\ login(u, ip, TRUE) = "ok")
        => login_token(u) = cache[u].token

\* no step replaces or extends a live entry: token, semaphore and expires_at
\* stay as they are
C14_LiveEntryKept ==
    \A u \in Users :
        LiveEntry(cache, u, now) => u \in DOMAIN cache' /\ cache'[u] = cache[u]

\* a token is minted only for a user without a live entry
C14_MintOnlyWithoutEntry ==
    semCtr' # semCtr
    => \E u \in Users :
          /\ ~LiveEntry(cache, u, now)
          /\ u \in DOMAIN cache'
          /\ cache'[u] = [token |-> semCtr', semaphore |-> semCtr',
                          expires_at |-> now + Ttl]

\* C14: within the TTL of a user's token entry every successful login of the
\* user returns the token of that entry; no token is minted, the semaphore is
\* not replaced and expires_at is not extended; a token is minted only when the
\* user has no live entry.
C14_TokenReuse ==
    /\ []C14_ReturnsCachedToken
    /\ [][C14_LiveEntryKept /\ C14_MintOnlyWithoutEntry]_vars

\* one tick after the first token was minted a login passed the bucket and
\* left no failure behind: a second successful login of the same user, which
\* minted nothing and left the entry as it was
C14_Witness ==
    \E u \in Users :
        /\ now = 1
        /\ semCtr = 1
        /\ attempts = EmptyMap
        /\ bucket.last_refill = now
        /\ bucket.tokens < burst_capacity
        /\ cache = Insert(EmptyMap, u, [token |-> 1, semaphore |-> 1,
                                        expires_at |-> Ttl])

\* ---------------------------------------------------------------------------
\* C15
\* ---------------------------------------------------------------------------
\* request r runs acquire_permit_by_username
Acquires(r) == req[r].pc = "permit" /\ Acted(r)

\* a step that touches the token manager: acquire_permit_by_username of a
\* request, or the get_or_generate of a successful login
Touches ==
    \/ \E r \in Reqs : Acquires(r)
    \/ \E u \in Users, ip \in Ips :
          /\ login(u, ip, TRUE) = "ok"
          /\ bucket' # bucket
          /\ req' = req

\* an acquire for a user without a live entry answers 401 and grants nothing
C15_NoEntryUnauthorized ==
    \A r \in Reqs :
        (Acquires(r) /\ ~LiveEntry(cache, req[r].user, now))
        => /\ req'[r].pc = "done"
           /\ req'[r].code = 401
           /\ \A h \in Reqs : req'[h].permit = req[h].permit

\* a touch of the manager leaves no entry with expires_at <= now behind
C15_EvictedOnTouch ==
    Touches => \A u \in DOMAIN cache' : now < cache'[u].expires_at

\* a permit is only ever granted on the semaphore of a live entry
C15_GrantOnlyLive ==
    \A r \in Reqs :
        (req[r].permit = 0 /\ req'[r].permit # 0)
        => /\ LiveEntry(cache, req[r].user, now)
           /\ req'[r].permit = cache[req[r].user].semaphore

\* C15: acquire_permit_by_username for a user with no live token entry fails
\* with 401 and grants no permit; every entry with expires_at <= now is evicted
\* at the next touch of the manager and grants no permit afterwards.
C15_ExpiredEntryRejected ==
    [][C15_NoEntryUnauthorized /\ C15_EvictedOnTouch /\ C15_GrantOnlyLive]_vars

\* a request that came with a still valid bearer token was answered 401 by the
\* acquire at or after the expiry of the user's entry, which is evicted
C15_Witness ==
    \E r \in Reqs :
        /\ req[r].pc = "done" /\ req[r].code = 401 /\ req[r].why = "token_expired"
        /\ req[r].permit = 0
        /\ validate_token(req[r].user, now)
        /\ req[r].user \notin DOMAIN cache

\* ---------------------------------------------------------------------------
\* C16
\* ---------------------------------------------------------------------------
\* the failures of (u, ip) that lie within the window at the current time
RecentFailures(u, ip) == Len(Prune(Failures(attempts, key(u, ip)), now))

\* C16: while threshold failures of a (user, ip) lie within the window, every
\* login from that (user, ip), also one with the right password, is answered
\* 429 (and issues no token); once the window has elapsed, so that fewer than
\* threshold failures lie within it, a login that the global bucket admits is
\* evaluated normally again: the right password is accepted.
C16_BlockedUntilWindowElapses ==
    \A u \in Users, ip \in Ips :
        /\ RecentFailures(u, ip) >= login_fail_threshold
             => \A pw_ok \in BOOLEAN : login_status(u, ip, pw_ok) = 429
        /\ (RecentFailures(u, ip) < login_fail_threshold /\ Admits(bucket, now))
             => login_status(u, ip, TRUE) = 200

\* ---------------------------------------------------------------------------
\* C17
\* ---------------------------------------------------------------------------
\* C17: a login with a wrong password from a (user, ip) that has fewer than
\* threshold failures on record, the global bucket admitting it, is answered
\* 401, also when it is the failure that brings the count to threshold; with
\* threshold failures on record the answer is 429.
C17_FailureAnswered401 ==
    \A u \in Users, ip \in Ips :
        Admits(bucket, now)
        => IF Len(Failures(attempts, key(u, ip))) < login_fail_threshold
           THEN login_status(u, ip, FALSE) = 401
           ELSE login_status(u, ip, FALSE) = 429

\* ---------------------------------------------------------------------------
\* C18
\* ---------------------------------------------------------------------------
\* the entries after n failures of key k in a row at time t
RECURSIVE FailTimes(_, _, _, _)
FailTimes(a, k, t, n) ==
    IF n = 0 THEN a ELSE record_failure(FailTimes(a, k, t, n - 1), k, t)

\* what a successful login of (u, ip) leaves has no entry for (u, ip), and from
\* there the block of (u, ip) takes threshold failures, no fewer
C18_SuccessClears ==
    \A u \in Users, ip \in Ips :
        login(u, ip, TRUE) = "ok"
        => LET after == reset_on_success(attempts, key(u, ip))
           IN  /\ key(u, ip) \notin DOMAIN after
               /\ \A n \in 0..login_fail_threshold :
                     should_block(FailTimes(after, key(u, ip), now, n), key(u, ip))
                       <=> n = login_fail_threshold

\* the login that mints the token of u is a successful login of u: it leaves
\* no brute-force entry of u, and the entries of the other users as they were
C18_MintingLoginClears ==
    \A u \in Users :
        ( /\ semCtr' # semCtr
          /\ u \in DOMAIN cache'
          /\ cache'[u].token = semCtr' )
        => /\ \E ip \in Ips : key(u, ip) \notin DOMAIN attempts'
           /\ \A k \in DOMAIN attempts : k[1] # u => Failures(attempts', k) = attempts[k]

\* an entry disappears only in a step that consumes a token of the bucket
\* while a login of its own (user, ip) with the right password succeeds
C18_RemovedOnlyBySuccess ==
    \A k \in DOMAIN attempts :
        k \notin DOMAIN attempts'
        => /\ login(k[1], k[2], TRUE) = "ok"
           /\ bucket' # bucket

\* C18: a successful login from (user, ip) removes the brute-force entry of
\* that (user, ip): the failures recorded before it count toward no later
\* block, which takes threshold new failures within the window.
C18_SuccessResetsCounter ==
    /\ []C18_SuccessClears
    /\ [][C18_MintingLoginClears /\ C18_RemovedOnlyBySuccess]_vars

\* two wrong passwords at time 0, one of u and one of v, used up the bucket;
\* at time 1 u logged in with the right password: its token entry is new, its
\* brute-force entry is gone, that of v is still there
C18_Witness ==
    \E u \in Users, v \in Users, ip \in Ips :
        /\ u # v
        /\ now = 1
        /\ semCtr = 1
        /\ bucket = [tokens |-> 0, last_refill |-> 1]
        /\ LiveEntry(cache, u, now) /\ cache[u].expires_at = 1 + Ttl
        /\ attempts = Insert(EmptyMap, key(v, ip), <<0>>)

\* ---------------------------------------------------------------------------
\* C19
\* ---------------------------------------------------------------------------
\* the bucket after n acquire() calls in a row at time t
RECURSIVE AcquireTimes(_, _, _)
AcquireTimes(b, t, n) ==
    IF n = 0 THEN b ELSE AfterAcquire(AcquireTimes(b, t, n - 1), t)

\* the n-th of a row of acquire() calls at time t on bucket b is admitted
AdmittedNth(b, t, n) == Admits(AcquireTimes(b, t, n - 1), t)

\* the bucket is at full capacity at the current time
Full == bucket.tokens + (now - bucket.last_refill) * Rps >= 2 * Rps

\* of a row of acquire() calls on the full bucket the first 2*rps are admitted
\* and the next one is not
C19_BurstOfFullBucket ==
    Full => \A n \in 1..(2 * Rps + 1) : AdmittedNth(bucket, now, n) <=> n <= 2 * Rps

\* request r runs acquire()
AcquiresGlobal(r) == req[r].pc = "global" /\ Acted(r)

\* an acquire() of a request is admitted exactly when the refilled bucket holds
\* a token, which it takes; a rejected one leaves the refilled tokens alone
C19_AcquireStep ==
    \A r \in Reqs :
        AcquiresGlobal(r)
        => LET refilled == Min(bucket.tokens + (now - bucket.last_refill) * Rps,
                               2 * Rps)
           IN  IF refilled >= 1
               THEN req'[r].pc = "quota" /\ bucket'.tokens = refilled - 1
               ELSE /\ req'[r].pc = "done" /\ req'[r].code = 429
                    /\ bucket'.tokens = refilled

\* C19: a global bucket at full capacity admits exactly 2*rps acquire() calls
\* made in a row with no time between them and rejects the next one; a rejected
\* acquire consumes no token.
C19_FullBucketBurst == []C19_BurstOfFullBucket /\ [][C19_AcquireStep]_vars

\* at time 0, on the full bucket of the start, 2*rps acquires were admitted,
\* one of them of a chat request, and the acquire of a chat request after them
\* was rejected
C19_Witness ==
    /\ now = 0
    /\ bucket.tokens = 0
    /\ \E r \in Reqs : req[r].pc = "done" /\ req[r].why = "global"
    /\ \E r \in Reqs : "global" \in req[r].steps

\* ---------------------------------------------------------------------------
\* C20
\* ---------------------------------------------------------------------------
\* the tokens are within 0 .. capacity
C20_TokensInRange == 0 <= bucket.tokens /\ bucket.tokens <= 2 * Rps

\* the bucket is drained at the current time: an acquire() now is rejected
Drained == ~Admits(bucket, now)

\* the bucket a rejected acquire() leaves at the current time
DrainedBucket == AfterAcquire(bucket, now)

\* after the drained bucket has been left alone for k/rps seconds, k <= 2*rps,
\* a row of acquire() calls admits the first k and rejects the next
C20_RefillAfterDrain ==
    Drained
    => \A k \in 0..(2 * Rps) :
          (k % Rps = 0)
          => \A n \in 1..(k + 1) :
                AdmittedNth(DrainedBucket, now + k \div Rps, n) <=> n <= k

\* every change of the bucket sets last_refill to the current time and adds
\* rps tokens for each second since the last refill, up to the capacity,
\* before at most one token is taken
C20_RefillStep ==
    bucket' # bucket
    => LET refilled == Min(bucket.tokens + (now - bucket.last_refill) * Rps,
                           2 * Rps)
       IN  /\ bucket'.last_refill = now
           /\ bucket'.tokens \in {refilled, refilled - 1}

\* C20: the bucket refills on demand at rps tokens per elapsed second, capped at
\* 2*rps, so 0 <= tokens <= capacity in every state; after the bucket has been
\* drained, waiting k/rps seconds (k <= capacity) lets exactly k further
\* acquire() calls be admitted before the next rejection.
C20_RefillOnDemand ==
    /\ [](C20_TokensInRange /\ C20_RefillAfterDrain)
    /\ [][C20_RefillStep]_vars

\* the bucket was drained at time 0 and left alone for 2*rps/rps seconds: at
\* that time the acquire of one chat request was admitted and, with the
\* refilled tokens used up, that of another was rejected
C20_Witness ==
    /\ now = (2 * Rps) \div Rps
    /\ bucket = [tokens |-> 0, last_refill |-> now]
    /\ \E r \in Reqs : req[r].pc = "done" /\ req[r].why = "global"
    /\ \E r \in Reqs : "global" \in req[r].steps
    /\ semCtr = 1 /\ \A u \in DOMAIN cache : cache[u].expires_at = Ttl

\* ---------------------------------------------------------------------------
\* C21
\* ---------------------------------------------------------------------------
\* a login with the right password for a deactivated user is answered with an
\* error, whatever the rest of the state
C21_InactiveRejected ==
    \A u \in DOMAIN users, ip \in Ips :
        ~users[u].is_active
        => /\ login(u, ip, TRUE) \in {"global", "blocked", "inactive"}
           /\ login_status(u, ip, TRUE) \in {401, 429}

\* the token state of user u: its cache entry and the token it holds
TokenState(u) ==
    <<IF u \in DOMAIN cache THEN <<cache[u]>> ELSE <<>>,
      IF u \in DOMAIN jwt THEN <<jwt[u]>> ELSE <<>>>>

\* no step mints a token or a token entry for a user that is deactivated, and
\* a login is the only step that gives a token entry to a user
C21_NoTokenForInactive ==
    \A u \in DOMAIN users :
        ~users[u].is_active
        => /\ TokenState(u)' = TokenState(u)
           /\ (\E ip \in Ips : LoginInactive(u, ip))
              => /\ cache' = cache /\ jwt' = jwt /\ semCtr' = semCtr
                 /\ attempts' = attempts

C22_MemoryKept == DOMAIN users \subseteq DOMAIN users'

\* no step removes the .toml file of a username
C22_FileKept == DOMAIN ufiles \subseteq DOMAIN ufiles'

\* the step by which a deactivation takes effect leaves the user's record in the
\* store, with is_active false
C22_DeactivationKeeps ==
    \A a \in Adms :
        (adm[a].pc = "insert" /\ adm'[a].pc = "done" /\ ~adm[a].user.is_active)
        => /\ adm[a].name \in DOMAIN users'
           /\ ~users'[adm[a].name].is_active

CreateStep(a) ==
    /\ adm'[a] # adm[a]
    /\ "create_user" \in {adm[a].op, adm'[a].op}

\* a create_user that finds the username in the store answers with an error
C23_ExistsFails ==
    \A a \in Adms :
        (CreateStep(a) /\ adm[a].pc = "idle" /\ adm'[a].name \in DOMAIN users)
        => adm'[a].pc = "done" /\ adm'[a].code = 500

\* no step of create_user changes the record of a user that is in the store,
\* in memory or on disk
C23_ExistingUnchanged ==
    \A a \in Adms :
        CreateStep(a)
        => \A u \in DOMAIN users :
              /\ users'[u] = users[u]
              /\ ufiles'[u] = ufiles[u]

\* a create_user succeeds only for a username that is not in the store: of the
\* calls for one username at most one succeeds
C23_AtMostOneSucceeds ==
    \A a \in Adms :
        (CreateStep(a) /\ adm'[a].pc = "done" /\ adm'[a].code = 200)
        => adm[a].name \notin DOMAIN users

\* C23: create_user fails when the username already exists and leaves the
\* existing record (password, quota_tier, is_active, created_at) unchanged in
\* memory and on disk, including when two create_user calls for the same
\* username run concurrently: at most one of them succeeds.
C23_CreateOnlyOnce ==
    [][C23_ExistsFails /\ C23_ExistingUnchanged /\ C23_AtMostOneSucceeds]_vars

\* the part that holds: a call that starts when the username is in the store
\* fails and changes nothing
C23_SequentialCreate ==
    [][C23_ExistsFails
       /\ \A a \in Adms :
             (CreateStep(a) /\ adm[a].pc = "idle" /\ adm'[a].name \in DOMAIN users)
             => users' = users /\ ufiles' = ufiles]_vars

\* ---------------------------------------------------------------------------
\* C24
\* ---------------------------------------------------------------------------
\* the admin task a takes a step of set_user_active
SetActiveStep(a) ==
    /\ adm'[a] # adm[a]
    /\ "set_user_active" \in {adm[a].op, adm'[a].op}

\* a user record without the two fields set_user_active writes
Identity(user) == [user EXCEPT !.is_active = TRUE, !.updated_at = NoTime]

\* the record set_user_active is about to save is the one it read, with
\* is_active set and an updated_at that is not earlier
C24_CloneOfRecord ==
    \A a \in Adms :
        (SetActiveStep(a) /\ adm'[a].pc = "create")
        => /\ Identity(adm'[a].user) = Identity(users[adm'[a].name])
           /\ adm'[a].user.updated_at >= users[adm'[a].name].updated_at
           /\ users' = users /\ ufiles' = ufiles

\* what set_user_active writes, to the file and to the map, is that record,
\* under the username of the call, and nothing else
C24_SavesClone ==
    \A a \in Adms :
        (SetActiveStep(a) /\ adm[a].pc # "idle")
        => /\ users' \in {users, Insert(users, adm[a].name, adm[a].user)}
           /\ ufiles' \in {ufiles, Insert(ufiles, adm[a].name, EmptyFile),
                            Insert(ufiles, adm[a].name, to_string_pretty(adm[a].user))}
           /\ adm[a].user.username = adm[a].name
           /\ adm[a].name \in DOMAIN users

\* on a username that is not in the store the call answers NotFound and
\* changes nothing
C24_UnknownUser ==
    \A a \in Adms :
        (SetActiveStep(a) /\ adm[a].pc = "idle" /\ adm'[a].pc = "done")
        => adm'[a].code = 404 /\ users' = users /\ ufiles' = ufiles

\* applied to a record of the store, a second set_user_active(u, x) changes
\* nothing of what the first one left but updated_at, which advances
C24_Idempotent ==
    \A u \in DOMAIN users, x \in BOOLEAN, t1 \in now..MaxTime :
        \A t2 \in t1..MaxTime :
            LET once == Activated(users[u], x, t1)
                twice == Activated(once, x, t2)
            IN  /\ twice = [once EXCEPT !.updated_at = now_beijing_rfc3339(t2)]
                /\ twice.updated_at >= once.updated_at
                /\ (t2 > t1 => twice.updated_at > once.updated_at)
                /\ Identity(twice) = Identity(users[u])

\* C24: set_user_active is idempotent in effect: applying set_user_active(u, x)
\* twice leaves the same record as applying it once except that updated_at
\* advances; username, password, quota_tier and created_at are never changed by
\* set_user_active, and on an unknown user it fails with NotFound leaving the
\* store unchanged.
C24_SetActiveIdempotent ==
    /\ []C24_Idempotent
    /\ [][C24_CloneOfRecord /\ C24_SavesClone /\ C24_UnknownUser]_vars

\* set_user_active(alice, false) was applied twice, the second time after the
\* clock advanced: alice's record, in memory and on disk, is the configured one
\* with is_active false and the updated_at of the second call
C24_Witness ==
    /\ \A a \in Adms : adm[a].pc = "done" /\ adm[a].code = 200 /\ adm[a].body = {}
    /\ DOMAIN users = Users
    /\ now > 0
    /\ users["alice"] = Activated(ConfigUser("alice"), FALSE, now)
    /\ ufiles["alice"] = to_string_pretty(users["alice"])

\* ---------------------------------------------------------------------------
\* C25
\* ---------------------------------------------------------------------------
\* the admin requests whose peer is not the loopback address
Remote == {a \in Adms : adm[a].peer \notin {"", Loopback}}

\* such a request is answered 403 at once; no handler ran for it and its
\* response carries nothing of the user store
C25_Answered403 ==
    \A a \in Remote :
        /\ adm[a].pc = "done" /\ adm[a].code = 403
        /\ adm[a].op = "" /\ adm[a].user = NoRecord /\ adm[a].body = {}

\* the step of such a request changes neither the store in memory nor the
\* files of the users
C25_NoEffect ==
    \A a \in Adms :
        (adm'[a] # adm[a] /\ adm'[a].peer \notin {"", Loopback})
        => users' = users /\ ufiles' = ufiles

\* C25: every admin request whose peer address is not loopback is answered 403
\* before any admin handler runs, so no sequence of requests from non-loopback
\* peers ever changes or reads the user store through the admin routes.
C25_LoopbackOnly == []C25_Answered403 /\ [][C25_NoEffect]_vars

\* an admin request of 10.0.0.1 was answered 403 and one of the loopback
\* address, after it, was served with the users of the start
C25_Witness ==
    /\ Remote # {}
    /\ \E a \in Adms \ Remote :
          /\ adm[a].pc = "done" /\ adm[a].code = 200
          /\ adm[a].body = {UserInfo(ConfigUser(u)) : u \in Users}
          /\ \E h \in Remote : h < a

\* ---------------------------------------------------------------------------
\* C26
\* ---------------------------------------------------------------------------
\* every <user>.json holds a whole json document
C26_Complete == \A u \in DOMAIN files : files[u] # TruncatedJson

\* a <user>.json changes only by the rename of <user>.tmp over it
C26_ReplacedByRename ==
    \A u \in DOMAIN files' :
        (u \notin DOMAIN files \/ files'[u] # files[u])
        => u \in DOMAIN tmp /\ files'[u] = tmp[u] /\ u \notin DOMAIN tmp'

\* what a save_one puts in the temp file is the serialization of the state it
\* cloned from memory
C26_WritesSnapshot ==
    \A r \in Reqs :
        /\ (req[r].pc \in {"rs_snap", "fs_snap"} /\ Acted(r))
           => snap'[r] = quota[req[r].user]
        /\ (req[r].pc \in {"rs_fill", "fs_fill"} /\ Acted(r))
           => tmp'[req[r].user] = Serialize(snap[r])

\* C26: quota persistence is an atomic replace: in every reachable state,
\* including a crash at any point of a save and two save_one calls for the
\* same user running concurrently, the content of <user>.json is a complete
\* serialization of some state the user's in-memory quota had at an earlier
\* moment, never a partial or truncated file.
C26_AtomicReplace ==
    /\ []C26_Complete
    /\ [][C26_ReplacedByRename /\ C26_WritesSnapshot]_vars

\* the part that holds: the target is never written in place
C26_NeverInPlace == [][C26_ReplacedByRename /\ C26_WritesSnapshot]_vars


\* ---------------------------------------------------------------------------
\* C27

\* every <username>.toml holds a whole document
C27_Complete == \A u \in DOMAIN ufiles : ufiles[u] # EmptyFile

\* a start of the process at this moment loads every user that has a file
C27_Reloadable == DOMAIN load_all_users(ufiles) = DOMAIN ufiles

\* a file that exists keeps its content until a whole new document replaces
\* it in one step
C27_ReplacedWhole ==
    \A u \in DOMAIN ufiles :
        /\ u \in DOMAIN ufiles'
        /\ ufiles'[u] # ufiles[u] => ufiles'[u] # EmptyFile

\* C27: user record writes follow the atomic-rename discipline of the quota
\* files: a user's .toml file is replaced by writing a sibling temp file and
\* renaming it over the target, so a crash at any point of create_user or
\* set_user_active leaves the file either absent/old or completely new, never
\* partially written.
C27_AtomicUserWrite ==
    /\ [](C27_Complete /\ C27_Reloadable)
    /\ [][C27_ReplacedWhole]_vars


\* ---------------------------------------------------------------------------
\* C28

\* what the client has received is, item by item, what the upstream stream
\* has produced: the same chunks in the same order, and the same terminator
C28_SameSequence == cstream.out = cstream.sent

\* nothing is held back: every item the upstream stream produces is yielded
\* by the poll that produced it, and a poll that finds nothing yields nothing
C28_Unbuffered ==
    /\ Len(cstream.out') - Len(cstream.out) = Len(cstream.sent') - Len(cstream.sent)
    /\ Len(cstream.sent') > Len(cstream.sent)
       => cstream.out'[Len(cstream.out')] = cstream.sent'[Len(cstream.sent')]

\* the chunks whose lines poll_next parsed for usage frames
Parsed(i) ==
    /\ cstream.sent[i].kind = "chunk"
    /\ cstream.sent[i].chunk.utf8
    /\ \A j \in 1..(i - 1) : usage_frames(cstream.sent[j].chunk) = 0

\* C28: the streaming passthrough never modifies, drops, reorders or buffers
\* what it forwards: the sequence of chunks (and the terminating EOF or
\* error) yielded to the client by CountingStream over PermitGuardedStream
\* equals the sequence produced by the upstream stream, whether or not usage
\* frames are parsed.
C28_Passthrough == []C28_SameSequence /\ [][C28_Unbuffered]_vars

\* a stream that ended with an error after a chunk whose usage frame was
\* recorded and a chunk that was not parsed
C28_Witness ==
    /\ cstream.pc = "ended"
    /\ Len(cstream.out) = MaxChunks
    /\ cstream.out[MaxChunks] = ReadyErr
    /\ cstream.real_output_recorded
    /\ \E i \in 1..Len(cstream.sent) :
          Parsed(i) /\ usage_frames(cstream.sent[i].chunk) > 0
    /\ \E i \in 1..Len(cstream.sent) :
          cstream.sent[i].kind = "chunk" /\ ~Parsed(i)


\* ---------------------------------------------------------------------------
\* C29

\* min(configured token_ttl_seconds, 60)
EffectiveTtl == IF Ttl < ReuseWindowCap THEN Ttl ELSE ReuseWindowCap

\* the step issues a token to u: a cache entry with a new token
Issued(u) ==
    /\ u \in DOMAIN cache'
    /\ u \notin DOMAIN cache \/ cache'[u].token # cache[u].token

\* an entry is live for at most the effective TTL after it was issued
C29_WindowCapped ==
    \A u \in Users : Issued(u) => cache'[u].expires_at <= now + EffectiveTtl

\* the login that issues a token announces the effective TTL
C29_ExpiresIn ==
    \A u \in Users : Issued(u) => login_expires_in = EffectiveTtl

\* the entry and the bearer token expire together, at what login announces
C29_ExpiresAsAnnounced ==
    \A u \in Users :
        Issued(u) => /\ cache'[u].expires_at = now + login_expires_in
                     /\ jwt'[u] = now + login_expires_in

\* C29: the effective token reuse window is min(configured
\* token_ttl_seconds, 60): a token entry never stays live for more than 60
\* seconds after it was issued, and the expires_in returned by login equals
\* that effective TTL, for every configured token_ttl_seconds.
C29_ReuseWindowCapped == [][C29_WindowCapped /\ C29_ExpiresIn]_vars

\* the part that holds: expires_in is the lifetime of the entry and of the
\* bearer token, the configured token_ttl_seconds
C29_AnnouncedLifetime == [][C29_ExpiresAsAnnounced]_vars


\* ---------------------------------------------------------------------------
\* C30

\* the request was answered with an error response
AnsweredError(r) == req[r].pc = "done" /\ req[r].code # 200

\* a request that was answered with an error has not raised used_count
C30_ErrorNotCounted ==
    \A r \in Reqs : AnsweredError(r) => "count" \notin req[r].steps

\* the step that answers a request with an error leaves every counter as it is
C30_ErrorStepKeepsCount ==
    \A r \in Reqs :
        (Acted(r) /\ req[r].pc # "done" /\ req'[r].pc = "done" /\ req'[r].code # 200)
        => \A u \in DOMAIN quota :
              u \in DOMAIN quota' /\ quota'[u].used_count = quota[u].used_count

\* C30: clients are never charged for errors they did not cause: every chat
\* request that is answered with an error response (including an error raised
\* by the quota increment itself, such as a failed flush at a save_interval or
\* reset boundary) leaves the user's used_count unchanged.
C30_NeverChargedForErrors ==
    []C30_ErrorNotCounted /\ [][C30_ErrorStepKeepsCount]_vars

\* the part that holds: every error but the failed flush at a save_interval
\* boundary is answered before the count
C30_ChargedOnlyByIntervalFlush ==
    [](\A r \in Reqs :
          (AnsweredError(r) /\ req[r].why # "interval_flush")
          => "count" \notin req[r].steps)

\* ---------------------------------------------------------------------------
\* C31

\* the process has exited: shutdown_signal has returned and the graceful
\* shutdown has seen the last in-flight request end
Exited == sd.pc = "closed" /\ \A r \in DOMAIN req : req[r].pc \in {"idle", "done"}

\* the quota file of u holds the used_count the cache holds (a user that has
\* no file yet has nothing counted on disk)
OnDisk(u) ==
    IF u \in DOMAIN files
    THEN files[u] # TruncatedJson /\ files[u].used_count = quota[u].used_count
    ELSE quota[u].used_count = 0

\* C31: on process shutdown the final quota flush happens after in-flight
\* requests have drained: when the process exits, for every cached user the
\* on-disk used_count equals the in-memory used_count, i.e. no increment
\* performed by a request that was in flight when the shutdown signal arrived
\* is missing from disk.
C31_FlushAfterDrain == Exited => \A u \in DOMAIN quota : OnDisk(u)

\* the order the code has: once save_all has returned nothing writes a quota
\* file but the flushes of the requests still in flight
C31_NoFlushAfterSaveAll ==
    [][sd.pc = "closed" /\ files' # files
         => \E r \in DOMAIN req : Acted(r) /\ req[r].pc \in {"rs_rename", "fs_rename"}]_vars

\* ---------------------------------------------------------------------------
\* C32  the lazy load and the user store
\* ---------------------------------------------------------------------------

\* r takes the quota step as the first access of its user: no cache entry and
\* no quota file
FirstAccess(r) ==
    /\ Acted(r)
    /\ req[r].pc = "quota"
    /\ req[r].user \notin DOMAIN quota
    /\ req[r].user \notin DOMAIN files

\* r is answered that its user does not exist
RejectedNoUser(r) == req[r].pc = "done" /\ req[r].why = "no_user"

\* C32: the first access of a user that the user store holds, a user created at
\* runtime included, is accepted and inserts a fresh quota state with
\* used_count = 0
C32_StoreUserAccepted ==
    [][\A r \in Reqs :
         FirstAccess(r) /\ req[r].user \in DOMAIN users
            => /\ ~RejectedNoUser(r)'
               /\ req[r].user \in DOMAIN quota'
               /\ quota'[req[r].user].used_count = 0]_vars

\* the part that holds: the rejection of a first access inserts no quota state
\* and writes no file
C32_RejectInsertsNothing ==
    [][\A r \in Reqs :
         Acted(r) /\ RejectedNoUser(r)'
            => /\ FirstAccess(r)
               /\ quota' = quota
               /\ files' = files
               /\ tmp' = tmp]_vars

\* a user of the configuration file is never rejected by the lazy load
C32_ConfigUserAccepted ==
    \A r \in Reqs : RejectedNoUser(r) => req[r].user \notin Users

\* ---------------------------------------------------------------------------
\* C33  increments of one user are linearizable
\* ---------------------------------------------------------------------------

\* the requests of u that run the counting critical section in this step
Counting(u) ==
    {r \in Reqs : Acted(r) /\ req[r].user = u /\ req[r].pc = "count"}

\* a request of u runs the month reset in this step
Resetting(u) ==
    \E r \in Reqs : Acted(r) /\ req[r].user = u /\ req[r].pc = "inc"
                    /\ req'[r].pc = "rs_snap"

\* C33: increments of one user are linearizable. With no reset, every step
\* leaves the user's one cache entry in place, a counting section raises
\* used_count by exactly one from the value the last one left, and no lazy load
\* or other step of a concurrent request changes it: N increments end N higher
\* and observe N distinct values
C33_Linearizable ==
    [][\A u \in Users :
         (u \in DOMAIN quota /\ ~Resetting(u))
            => /\ u \in DOMAIN quota'
               /\ quota'[u].used_count
                    = quota[u].used_count + Cardinality(Counting(u))
               /\ quota'[u].reset_at = quota[u].reset_at]_vars

\* two requests of alice, who starts with no quota file, are in flight
\* together, both lazy loads and both increments are done with no reset, and
\* used_count is 2
C33_Witness ==
    \E r1, r2 \in Reqs :
        /\ r1 # r2
        /\ req[r1].user = "alice" /\ req[r2].user = "alice"
        /\ req[r1].permit # 0 /\ req[r2].permit # 0
        /\ "count" \in req[r1].steps /\ "count" \in req[r2].steps
        /\ "reset" \notin req[r1].steps \cup req[r2].steps
        /\ quota["alice"].used_count = 2

\* ---------------------------------------------------------------------------
\* C34  next_month_reset
\* ---------------------------------------------------------------------------

\* the reading of the UTC+8 clock at the instant x
At0800(x) == x + TzOffset

\* next_month_reset ran in this step for u: a first access with no quota file,
\* or the month reset
ComputesReset(u) ==
    \/ u \notin DOMAIN quota /\ u \in DOMAIN quota' /\ u \notin DOMAIN files
    \/ Resetting(u)

\* C34: for every current time, next_month_reset denotes the first instant of
\* the calendar month after the current month of the UTC+8 clock, December
\* wrapping to January of the next year, and that instant is midnight on the
\* UTC+8 clock: the UTC+8 clock shows day 1, 00:00:00 at it
C34_LocalMidnight ==
    [][\A u \in Users :
         ComputesReset(u)
            => LET cur == At0800(now)
                   rst == At0800(quota'[u].reset_at)
               IN  /\ rst = first_of_month(year(rst), month(rst))
                   /\ month(rst) = IF month(cur) = 12 THEN 1 ELSE month(cur) + 1
                   /\ year(rst) = IF month(cur) = 12 THEN year(cur) + 1
                                  ELSE year(cur)]_vars

\* the part that holds: the date and time of day that next_month_reset builds
\* are day 1, 00:00:00 of the following month, December wrapping to January of
\* the next year, when they are read on the UTC clock
C34_FollowingMonthUtc ==
    [][\A u \in Users :
         ComputesReset(u)
            => LET cur == At0800(now)
                   rst == quota'[u].reset_at
               IN  /\ rst = first_of_month(year(rst), month(rst))
                   /\ month(rst) = IF month(cur) = 12 THEN 1 ELSE month(cur) + 1
                   /\ year(rst) = IF month(cur) = 12 THEN year(cur) + 1
                                  ELSE year(cur)]_vars

\* next_month_reset ran in December
C34_DecemberSeen ==
    \E u \in DOMAIN quota :
        /\ month(At0800(now)) = 12
        /\ u \notin DOMAIN files
        /\ year(quota[u].reset_at) = year(At0800(now)) + 1

\* ---------------------------------------------------------------------------
\* C35  used_count stays within monthly_limit
\* ---------------------------------------------------------------------------

\* C35: in every reachable state the cached used_count of every user is at
\* most the user's monthly_limit (the quota files of the initial state hold
\* counts within the limit)
C35_WithinLimit ==
    \A u \in DOMAIN quota : quota[u].used_count <= quota[u].monthly_limit

\* the part that holds: the quota check admits a request only while used_count
\* is below the limit
C35_AdmittedBelowLimit ==
    [][\A r \in Reqs :
         (Acted(r) /\ req[r].pc = "quota" /\ req'[r].pc = "permit")
            => quota'[req[r].user].used_count < quota'[req[r].user].monthly_limit]_vars

\* used_count passes the limit by at most the number of requests that were
\* admitted and have not counted yet
C35_OvershootBounded ==
    \A u \in DOMAIN quota :
        quota[u].used_count <= quota[u].monthly_limit + MaxReq - 1

\* ---------------------------------------------------------------------------
\* C36  no lockout after reset_at
\* ---------------------------------------------------------------------------

\* the quota state the quota step of r works on: the cached one, else the one
\* the lazy load brings in
StateSeen(r) == load_or_init(quota, req[r].user, now)[req[r].user]

\* r takes its quota step while its user is at the limit and reset_at is past
DueAtLimit(r) ==
    /\ Acted(r)
    /\ req[r].pc = "quota"
    /\ Loadable(quota, req[r].user)
    /\ req[r].user \in DOMAIN files => files[req[r].user] # TruncatedJson
    /\ StateSeen(r).used_count >= StateSeen(r).monthly_limit
    /\ now > StateSeen(r).reset_at

\* C36: a chat request of a user whose used_count has reached monthly_limit,
\* made after reset_at, is admitted by the quota step and is not answered 402
C36_NoLockout ==
    [][\A r \in Reqs : DueAtLimit(r) => req'[r].pc = "permit" /\ req'[r].code # 402]_vars

\* what happens instead: such a request is answered 402 and the quota state
\* stays as it is, so the next one meets the same state
C36_LockedOut ==
    [][\A r \in Reqs :
         DueAtLimit(r) => /\ req'[r].pc = "done" /\ req'[r].code = 402
                          /\ \A u \in DOMAIN quota : quota'[u] = quota[u]
                          /\ files' = files]_vars

\* the month reset itself works: it runs in the increment of a request that was
\* admitted, when reset_at is past
C36_ResetInIncrement ==
    [][\A u \in Users :
         Resetting(u) => now > quota[u].reset_at /\ quota'[u].used_count = 0]_vars

\* ---------------------------------------------------------------------------
\* C37  the count on disk does not go back within a month
\* ---------------------------------------------------------------------------

\* the quota file of u is replaced in this step by a whole file of the same
\* month: both hold the same reset_at
ReplacedSameMonth(u) ==
    /\ u \in DOMAIN files /\ u \in DOMAIN files'
    /\ files'[u] # files[u]
    /\ files[u] # TruncatedJson /\ files'[u] # TruncatedJson
    /\ files'[u].reset_at = files[u].reset_at

\* C37: within one month the used_count stored in a user's quota file never
\* decreases: no completed write of an interval flush, a reset flush or
\* save_all replaces a file holding a higher used_count by a snapshot holding
\* a lower one
C37_DiskMonotone ==
    [][\A u \in Users :
         ReplacedSameMonth(u) => files'[u].used_count >= files[u].used_count]_vars

\* the part that holds: every snapshot is a clone of the cached state, whose
\* used_count does not decrease within a month, so a file never holds more than
\* memory does
C37_DiskAtMostMemory ==
    \A u \in DOMAIN files :
        (u \in DOMAIN quota /\ files[u] # TruncatedJson
           /\ files[u].reset_at = quota[u].reset_at)
        => files[u].used_count <= quota[u].used_count

\* ---------------------------------------------------------------------------
\* C38  chat requests of a deactivated user
\* ---------------------------------------------------------------------------

\* set_user_active(u, false) has completed and no later call for u is under
\* way: the user store holds u with is_active = false and no admin task works
\* on u
DeactivationDone(u) ==
    /\ u \in DOMAIN users
    /\ Deactivated(users[u])
    /\ \A a \in Adms : adm[a].pc \in {"idle", "done"} \/ adm[a].name # u

\* r acquires its permit in this step
AcquiresPermit(r) == Acted(r) /\ req[r].pc = "permit" /\ req'[r].pc = "upstream"

\* r is accepted upstream in this step
ReachesUpstream(r) == Acted(r) /\ req[r].pc = "upstream" /\ req'[r].pc = "inc"

\* C38: a chat request is admitted to upstream only for a user that is
\* authenticated and active: once set_user_active(u, false) has completed, no
\* chat request of u acquires a permit or reaches upstream, whatever token it
\* presents
C38_InactiveNotAdmitted ==
    [][\A r \in Reqs :
         DeactivationDone(req[r].user) => ~AcquiresPermit(r) /\ ~ReachesUpstream(r)]_vars

\* the part that holds: a deactivated user gets no token from login
C38_InactiveNoLogin ==
    [][\A u \in Users :
         DeactivationDone(u) => (u \in DOMAIN cache' => u \in DOMAIN cache
                                                       /\ cache'[u] = cache[u])]_vars

\* ---------------------------------------------------------------------------
\* C39  the user store's memory and disk when it is quiescent
\* ---------------------------------------------------------------------------

\* no admin call is under way
Quiescent == \A a \in Adms : adm[a].pc \in {"idle", "done"}

\* every admin call that has ended returned without an internal error: no
\* write of a user file failed
NoCallFailed == \A a \in Adms : adm[a].pc = "done" => adm[a].code # 500

\* the record the map holds for u is the record u's file stores
SameOnDisk(u) ==
    u \in DOMAIN ufiles /\ ufiles[u] = to_string_pretty(users[u])

\* C39: once every set_user_active and create_user call has completed, for
\* every user the record held in the in-memory map equals the record stored in
\* the user's file, the is_active value included
C39_MemoryEqualsDisk ==
    (Quiescent /\ NoCallFailed) => \A u \in DOMAIN users : SameOnDisk(u)

\* the same for the calls on a user that exists from the start
C39_ExistingUserAgrees ==
    (Quiescent /\ NoCallFailed) => SameOnDisk("alice")

\* the part that holds: a save_user that no other call overlaps (the other
\* admin tasks have not arrived) leaves the map and the file with the same
\* record
C39_AloneAgrees ==
    [][\A a \in Adms :
         ( /\ adm[a].pc = "insert" /\ adm'[a].pc = "done"
           /\ \A b \in Adms \ {a} : adm[b].pc = "idle" )
         => LET u == adm[a].name
            IN  u \in DOMAIN users' /\ u \in DOMAIN ufiles'
                /\ ufiles'[u] = to_string_pretty(users'[u])]_vars

\* ---------------------------------------------------------------------------
\* C40  waiting_count of the queueing RateLimiter
\* ---------------------------------------------------------------------------

\* the acquire() calls in progress that have added themselves to waiting_count
\* and not yet taken themselves out
Waiting == {c \in Callers : acq[c].pc \in {"check", "poll", "wait", "woken"}}

\* no acquire() is in progress
NoneInProgress == \A c \in Callers : acq[c].pc \in {"idle", "holding", "done"}

\* C40: waiting_count equals the number of acquire() calls in progress: every
\* acquire that has ended, with a permit, rejected because the queue was full,
\* timed out or cancelled while it waited, has left waiting_count as it found
\* it, so the count is 0 when no acquire is in progress
C40_CountsWaiters == waiting_count = Cardinality(Waiting)

\* the part that holds: waiting_count is the number of calls in progress plus
\* the number of calls that were cancelled while they waited
C40_CountsWaitersAndCancelled ==
    waiting_count
      = Cardinality(Waiting)
        + Cardinality({c \in Callers : acq[c].result = "cancelled"})

\* every call that ended with a permit, a full queue or a timeout took itself
\* out of waiting_count
C40_ReturningCallsBalance ==
    [][\A c \in Callers :
         (acq[c].pc \in {"check", "woken"} /\ acq'[c].pc \in {"holding", "done"})
            => waiting_count' = waiting_count - 1]_vars

\* the consequence the claim draws, which fails with it: when no acquire is in
\* progress a new call finds room in the queue
C40_NeverFullForGood == NoneInProgress => waiting_count < queue_capacity

====
